---- MODULE Spec2Model ----
(***************************************************************************)
(* A model of the content-stream interpreter of pdf_render                 *)
(* (render/src/renderstate.rs, render/src/lib.rs) together with the        *)
(* backends it drives.  Numbers are exact integers; floating-point         *)
(* rounding is not modelled.                                               *)
(***************************************************************************)
EXTENDS Integers, Sequences, FiniteSets, TLC

\* ------------------------------------------------------------------------
\* Bounds
\* ------------------------------------------------------------------------
\* the visible window is GridN x GridN unit cells
GridN == 4
\* depth of nested draw_form calls at which the call stack is exhausted
MaxDepth == 3

\* ------------------------------------------------------------------------
\* Option<T>: None is the empty sequence, Some(x) the one-element sequence
\* ------------------------------------------------------------------------
None == <<>>
Some(x) == <<x>>
IsSome(o) == Len(o) = 1
IsNone(o) == Len(o) = 0
Unwrap(o) == o[1]

Min(a, b) == IF a < b THEN a ELSE b
Max(a, b) == IF a > b THEN a ELSE b

\* ------------------------------------------------------------------------
\* Results of draw_op: Ok(()), Err(e), or the process dying (a panic, or
\* the exhaustion of the call stack)
\* ------------------------------------------------------------------------
Ok == [tag |-> "Ok", msg |-> ""]
Err(m) == [tag |-> "Err", msg |-> m]
Panic(m) == [tag |-> "Panic", msg |-> m]
StackOverflow == [tag |-> "Overflow", msg |-> "stack overflow"]
IsOk(r) == r.tag = "Ok"
Ret(rs, be, res) == [rs |-> rs, be |-> be, res |-> res]

\* ------------------------------------------------------------------------
\* Geometry (pathfinder_geometry, pathfinder_content)
\* ------------------------------------------------------------------------
row_major(m11, m12, m13, m21, m22, m23) ==
    [m11 |-> m11, m12 |-> m12, m13 |-> m13, m21 |-> m21, m22 |-> m22, m23 |-> m23]
Transform2F_default == row_major(1, 0, 0, 0, 1, 0)
from_translation(v) == row_major(1, 0, v[1], 0, 1, v[2])
from_scale(v) == row_major(v[1], 0, 0, 0, v[2], 0)
\* a * b: b is applied first
TMul(a, b) ==
    row_major(a.m11 * b.m11 + a.m12 * b.m21,
              a.m11 * b.m12 + a.m12 * b.m22,
              a.m11 * b.m13 + a.m12 * b.m23 + a.m13,
              a.m21 * b.m11 + a.m22 * b.m21,
              a.m21 * b.m12 + a.m22 * b.m22,
              a.m21 * b.m13 + a.m22 * b.m23 + a.m23)
TApply(t, p) == <<t.m11 * p[1] + t.m12 * p[2] + t.m13,
                  t.m21 * p[1] + t.m22 * p[2] + t.m23>>
translation(t) == <<t.m13, t.m23>>

\* impl Cvt for Matrix
cvt_matrix(m) == row_major(m.a, m.c, m.e, m.b, m.d, m.f)
Matrix(a, b, c, d, e, f) == [a |-> a, b |-> b, c |-> c, d |-> d, e |-> e, f |-> f]

\* RectF: origin (min corner) and lower_right (max corner)
RectF_from_points(o, l) == [ox |-> o[1], oy |-> o[2], lx |-> l[1], ly |-> l[2]]
RectF_new(o, size) == RectF_from_points(o, <<o[1] + size[1], o[2] + size[2]>>)
RectF_default == RectF_new(<<0, 0>>, <<0, 0>>)
\* impl Cvt for Rect
cvt_rect(r) == RectF_new(<<r.x, r.y>>, <<r.width, r.height>>)
Rect(x, y, w, h) == [x |-> x, y |-> y, width |-> w, height |-> h]
rect_origin(r) == <<r.ox, r.oy>>
rect_upper_right(r) == <<r.lx, r.oy>>
rect_lower_right(r) == <<r.lx, r.ly>>
rect_lower_left(r) == <<r.ox, r.ly>>
rect_intersects(a, b) ==
    a.ox < b.lx /\ a.oy < b.ly /\ b.ox < a.lx /\ b.oy < a.ly
rect_intersection(a, b) ==
    IF ~rect_intersects(a, b) THEN None
    ELSE Some(RectF_from_points(<<Max(a.ox, b.ox), Max(a.oy, b.oy)>>,
                                <<Min(a.lx, b.lx), Min(a.ly, b.ly)>>))
unwrap_or_default(o) == IF IsSome(o) THEN Unwrap(o) ELSE RectF_default

\* Contour: endpoints and the closed flag.  Outline: its contours, and the
\* convex polygon (always a rectangle here) it has been clipped against.
Contour_new == [points |-> <<>>, closed |-> FALSE]
contour_is_empty(c) == Len(c.points) = 0
push_endpoint(c, p) == [c EXCEPT !.points = Append(@, p)]
contour_close(c) == [c EXCEPT !.closed = TRUE]
Contour_from_rect(r) ==
    [points |-> <<rect_origin(r), rect_upper_right(r), rect_lower_right(r), rect_lower_left(r)>>,
     closed |-> TRUE]
Outline_new == [contours |-> <<>>, clipped |-> None]
push_contour(o, c) ==
    IF contour_is_empty(c) THEN o ELSE [o EXCEPT !.contours = Append(@, c)]
Outline_from_rect(r) == push_contour(Outline_new, Contour_from_rect(r))
outline_clear(o) == Outline_new
transformed(o, t) ==
    [o EXCEPT !.contours =
        [i \in 1..Len(@) |-> [@[i] EXCEPT !.points = [j \in 1..Len(@) |-> TApply(t, @[j])]]]]
\* Outline::clip_against_polygon with the four corners of r: what is left is
\* the part of the outline inside r
clip_against_polygon(o, r) ==
    [o EXCEPT !.clipped = IF IsNone(@) THEN Some(r)
                          ELSE Some(unwrap_or_default(rect_intersection(Unwrap(@), r)))]

RECURSIVE SeqMin(_), SeqMax(_)
SeqMin(s) == IF Len(s) = 1 THEN s[1] ELSE Min(s[1], SeqMin(Tail(s)))
SeqMax(s) == IF Len(s) = 1 THEN s[1] ELSE Max(s[1], SeqMax(Tail(s)))
contour_bounds(c) ==
    LET xs == [i \in 1..Len(c.points) |-> c.points[i][1]]
        ys == [i \in 1..Len(c.points) |-> c.points[i][2]]
    IN RectF_from_points(<<SeqMin(xs), SeqMin(ys)>>, <<SeqMax(xs), SeqMax(ys)>>)

\* fn to_rect: one contour of four points whose segments (the closing one
\* ignored) are lines parallel to exactly one axis
to_rect(o) ==
    IF Len(o.contours) # 1 THEN None
    ELSE LET c == o.contours[1] IN
         IF Len(c.points) # 4 THEN None
         ELSE IF ~ \A i \in 1..3 :
                     (c.points[i][1] = c.points[i + 1][1]) # (c.points[i][2] = c.points[i + 1][2])
              THEN None
              ELSE Some(contour_bounds(c))

\* ------------------------------------------------------------------------
\* The region an outline covers under a fill rule: the cells of the window
\* whose centre has a non-zero (Winding) or odd (EvenOdd) winding number.
\* Coordinates are doubled so that cell centres are integers.
\* ------------------------------------------------------------------------
Cells == (0..(GridN - 1)) \X (0..(GridN - 1))
EdgeWinding(a, b, cell) ==
    LET px == 2 * cell[1] + 1
        py == 2 * cell[2] + 1
        ax == 2 * a[1]
        ay == 2 * a[2]
        bx == 2 * b[1]
        by == 2 * b[2]
        isLeft == (bx - ax) * (py - ay) - (px - ax) * (by - ay)
    IN IF ay <= py /\ by > py /\ isLeft > 0 THEN 1
       ELSE IF ay > py /\ by <= py /\ isLeft < 0 THEN 0 - 1
       ELSE 0
RECURSIVE ContourWinding(_, _, _)
ContourWinding(pts, i, cell) ==
    IF i > Len(pts) THEN 0
    ELSE EdgeWinding(pts[i], pts[(i % Len(pts)) + 1], cell) + ContourWinding(pts, i + 1, cell)
RECURSIVE OutlineWinding(_, _, _)
OutlineWinding(cs, i, cell) ==
    IF i > Len(cs) THEN 0
    ELSE ContourWinding(cs[i].points, 1, cell) + OutlineWinding(cs, i + 1, cell)
RectCells(r) ==
    {c \in Cells : r.ox <= c[1] /\ c[1] + 1 <= r.lx /\ r.oy <= c[2] /\ c[2] + 1 <= r.ly}
Region(o, fill_rule) ==
    LET inside == {c \in Cells :
                     LET wn == OutlineWinding(o.contours, 1, c)
                     IN IF fill_rule = "EvenOdd" THEN wn % 2 # 0 ELSE wn # 0}
    IN IF IsSome(o.clipped) THEN inside \cap RectCells(Unwrap(o.clipped)) ELSE inside

\* impl Cvt for Winding
cvt_winding(w) == IF w = "NonZero" THEN "Winding" ELSE "EvenOdd"

\* ------------------------------------------------------------------------
\* Fill, BlendMode, alpha (render/src/lib.rs, render/src/backend.rs)
\* Alpha values are counted in units of 1/AlphaOne.
\* ------------------------------------------------------------------------
AlphaOne == 64
Solid(r, g, b) == [tag |-> "Solid", r |-> r, g |-> g, b |-> b, pattern |-> 0]
Pattern(p) == [tag |-> "Pattern", r |-> 0, g |-> 0, b |-> 0, pattern |-> p]
Fill_black == Solid(0, 0, 0)

\* ------------------------------------------------------------------------
\* GraphicsState
\* ------------------------------------------------------------------------
GraphicsState_new(root_transformation) ==
    [transform |-> root_transformation,
     fill_color |-> Fill_black,
     fill_color_alpha |-> AlphaOne,
     fill_paint |-> None,
     fill_alpha |-> AlphaOne,
     stroke_color |-> Fill_black,
     stroke_color_alpha |-> AlphaOne,
     stroke_paint |-> None,
     stroke_alpha |-> AlphaOne,
     clip_path_id |-> None,
     clip_path |-> None,
     clip_path_rect |-> None,
     fill_color_space |-> [cs |-> "DeviceRGB"],
     stroke_color_space |-> [cs |-> "DeviceRGB"],
     stroke_style |-> [line_cap |-> "Butt", line_join |-> "Miter1", line_width |-> 1],
     dash_pattern |-> None,
     overprint_fill |-> FALSE,
     overprint_stroke |-> FALSE,
     overprint_mode |-> 0]

set_fill_color(gs, c) ==
    IF <<c.tag, c.pattern, c.r, c.g, c.b>>
         # <<gs.fill_color.tag, gs.fill_color.pattern, gs.fill_color.r, gs.fill_color.g, gs.fill_color.b>>
    THEN [gs EXCEPT !.fill_color = c, !.fill_paint = None]
    ELSE gs
\* the first component is compared with the fill colour's, as in the source
set_stroke_color(gs, c) ==
    IF <<c.tag, c.pattern, c.r, c.g, c.b>>
         # <<gs.stroke_color.tag, gs.stroke_color.pattern, gs.fill_color.r, gs.stroke_color.g, gs.stroke_color.b>>
    THEN [gs EXCEPT !.stroke_color = c, !.stroke_paint = None]
    ELSE gs
set_fill_alpha(gs, alpha) ==
    LET a == (gs.fill_alpha * alpha) \div AlphaOne
    IN IF a # gs.fill_color_alpha
       THEN [gs EXCEPT !.fill_color_alpha = a, !.fill_paint = None]
       ELSE gs
set_stroke_alpha(gs, alpha) ==
    LET a == (gs.stroke_alpha * alpha) \div AlphaOne
    IN IF a # gs.stroke_color_alpha
       THEN [gs EXCEPT !.stroke_color_alpha = a, !.stroke_paint = None]
       ELSE gs
\* GraphicsState::stroke(): the stroke style with the dash pattern
gs_stroke(gs) == [style |-> gs.stroke_style, dash_pattern |-> gs.dash_pattern]

\* ------------------------------------------------------------------------
\* TextState.  Lengths along the text line (the translation of the text and
\* line matrices, advances, widths) are counted in units of 1/TextUnit;
\* horiz_scale is counted in hundredths.
\* ------------------------------------------------------------------------
TextUnit == 100000
HundredPercent == 100
TextState_new ==
    [text_matrix |-> Transform2F_default,
     line_matrix |-> Transform2F_default,
     char_space |-> 0,
     word_space |-> 0,
     horiz_scale |-> HundredPercent,
     leading |-> 0,
     font_entry |-> None,
     font_size |-> 0,
     mode |-> "Fill",
     rise |-> 0,
     knockout |-> 0]
ts_set_matrix(ts, m) == [ts EXCEPT !.text_matrix = m, !.line_matrix = m]
ts_reset_matrix(ts) == ts_set_matrix(ts, Transform2F_default)
\* (mutant) the translation starts from the text matrix
ts_translate_from_text(ts, v) ==
    ts_set_matrix(ts, TMul(ts.text_matrix, from_translation(<<v[1] * TextUnit, v[2] * TextUnit>>)))
ts_translate(ts, v) ==
    ts_set_matrix(ts, TMul(ts.line_matrix, from_translation(<<v[1] * TextUnit, v[2] * TextUnit>>)))
ts_next_line(ts) == ts_translate(ts, <<0, 0 - ts.leading>>)
\* (mutant) the horizontal scaling is left out
ts_advance_unscaled(ts, delta) ==
    LET advance == delta * ts.font_size
    IN [ts |-> [ts EXCEPT !.text_matrix = TMul(@, from_translation(<<advance, 0>>))],
        advance |-> advance]
\* TextState::advance: delta is counted in thousandths
ts_advance(ts, delta) ==
    LET advance == delta * ts.font_size * ts.horiz_scale
    IN [ts |-> [ts EXCEPT !.text_matrix = TMul(@, from_translation(<<advance, 0>>))],
        advance |-> advance]

\* ------------------------------------------------------------------------
\* Backends.  kind is the implementation of the Backend trait in use:
\* "tracer" (Tracer), "scene" (SceneBackend) or "vello" (VelloBackend).
\* calls is the sequence of drawing calls received so far.
\* ------------------------------------------------------------------------
Backend_new(kind) ==
    [kind |-> kind, clip_paths |-> <<>>, calls |-> <<>>, fonts |-> <<>>, op_nr |-> 0]
\* Backend::bug_op
bug_op(be, op_nr) == [be EXCEPT !.op_nr = op_nr]
\* Backend::create_clip_path; ids count from 0.  VelloBackend drops parent.
create_clip_path(be, path, fill_rule, parent) ==
    LET id == Len(be.clip_paths)
        entry == [path |-> path, fill_rule |-> fill_rule,
                  parent |-> IF be.kind = "vello" THEN None ELSE parent]
    IN [be |-> [be EXCEPT !.clip_paths = Append(@, entry)], id |-> id]
backend_call(be, c) == [be EXCEPT !.calls = Append(@, c)]
backend_draw(be, outline, mode, fill_rule, transform, clip) ==
    backend_call(be, [call |-> "draw", outline |-> outline, mode |-> mode,
                      fill_rule |-> fill_rule, transform |-> transform, clip |-> clip])
\* the region a backend clips to when it is handed clip id (counted from 0)
RECURSIVE ClipRegion(_, _)
ClipRegion(be, id) ==
    LET e == be.clip_paths[id + 1]
        own == Region(e.path, e.fill_rule)
    IN IF IsSome(e.parent) THEN own \cap ClipRegion(be, Unwrap(e.parent)) ELSE own

\* ------------------------------------------------------------------------
\* RenderState: one interpreter (of the page, or of one Form XObject)
\* ------------------------------------------------------------------------
RenderState_new(resolve, resources, root_transformation) ==
    [resolve |-> resolve,
     graphics_state |-> GraphicsState_new(root_transformation),
     text_state |-> TextState_new,
     stack |-> <<>>,
     current_outline |-> Outline_new,
     current_contour |-> Contour_new,
     resources |-> resources]

blend_mode_fill(rs) == IF rs.graphics_state.overprint_fill THEN "Darken" ELSE "Overlay"
blend_mode_stroke(rs) == IF rs.graphics_state.overprint_stroke THEN "Darken" ELSE "Overlay"

flush(rs) ==
    IF ~contour_is_empty(rs.current_contour)
    THEN [rs EXCEPT !.current_outline = push_contour(@, rs.current_contour),
                    !.current_contour = Contour_new]
    ELSE rs

\* RenderState::draw
rs_draw(rs, be, mode, fill_rule) ==
    LET rs1 == flush(rs)
        be1 == backend_draw(be, rs1.current_outline, mode, fill_rule,
                            rs1.graphics_state.transform, rs1.graphics_state.clip_path_id)
    IN Ret([rs1 EXCEPT !.current_outline = outline_clear(@)], be1, Ok)

\* -- path construction ----------------------------------------------------
OpClose(rs, be) == Ret([rs EXCEPT !.current_contour = contour_close(@)], be, Ok)
\* (mutant) MoveTo drops the contour in progress
OpMoveTo_discarding(rs, be, p) ==
    Ret([rs EXCEPT !.current_contour = push_endpoint(Contour_new, p)], be, Ok)
OpMoveTo(rs, be, p) ==
    Ret([flush(rs) EXCEPT !.current_contour = push_endpoint(@, p)], be, Ok)
OpLineTo(rs, be, p) == Ret([rs EXCEPT !.current_contour = push_endpoint(@, p)], be, Ok)
OpRect(rs, be, rect) ==
    Ret([flush(rs) EXCEPT !.current_outline = push_contour(@, Contour_from_rect(cvt_rect(rect)))],
        be, Ok)
OpEndPath(rs, be) ==
    Ret([rs EXCEPT !.current_contour = Contour_new, !.current_outline = outline_clear(@)], be, Ok)

\* -- path painting --------------------------------------------------------
FillModeOf(color, alpha, mode) == [color |-> color, alpha |-> alpha, mode |-> mode]
OpStroke(rs, be) ==
    rs_draw(rs, be,
            [kind |-> "Stroke",
             stroke |-> FillModeOf(rs.graphics_state.stroke_color,
                                   rs.graphics_state.stroke_color_alpha, blend_mode_stroke(rs)),
             stroke_mode |-> gs_stroke(rs.graphics_state)],
            "Winding")
OpFillAndStroke(rs, be, winding) ==
    rs_draw(rs, be,
            [kind |-> "FillStroke",
             fill |-> FillModeOf(rs.graphics_state.fill_color,
                                 rs.graphics_state.fill_color_alpha, blend_mode_fill(rs)),
             stroke |-> FillModeOf(rs.graphics_state.stroke_color,
                                   rs.graphics_state.stroke_color_alpha, blend_mode_stroke(rs)),
             stroke_mode |-> gs_stroke(rs.graphics_state)],
            cvt_winding(winding))
OpFill(rs, be, winding) ==
    rs_draw(rs, be,
            [kind |-> "Fill",
             fill |-> FillModeOf(rs.graphics_state.fill_color,
                                 rs.graphics_state.fill_color_alpha, blend_mode_fill(rs))],
            cvt_winding(winding))

\* -- Clip -----------------------------------------------------------------
\* the (path, rect, parent) selected by the match on
\* (current clip_path_rect, to_rect of the new path, current clip_path_id);
\* bad is set where the source reaches unreachable!() or unwraps a None
ClipSelect(gs, path) ==
    LET r1 == gs.clip_path_rect
        r2 == to_rect(path)
        id == gs.clip_path_id
        sel(pth, r, parent, bad) == [path |-> pth, r |-> r, parent |-> parent, bad |-> bad]
    IN CASE IsSome(r1) /\ IsSome(r2) /\ IsSome(id) ->
              LET r == unwrap_or_default(rect_intersection(Unwrap(r1), Unwrap(r2)))
              IN sel(Outline_from_rect(r), Some(r), None, FALSE)
         [] IsSome(r1) /\ IsNone(r2) /\ IsSome(id) ->
              sel(clip_against_polygon(path, Unwrap(r1)), None, None, FALSE)
         [] IsNone(r1) /\ IsSome(r2) /\ IsSome(id) ->
              IF IsNone(gs.clip_path) THEN sel(path, None, None, TRUE)
              ELSE sel(clip_against_polygon(Unwrap(gs.clip_path).outline, Unwrap(r2)),
                       None, None, FALSE)
         [] IsNone(r1) /\ IsSome(r2) /\ IsNone(id) -> sel(path, r2, None, FALSE)
         [] IsNone(r1) /\ IsNone(r2) /\ IsSome(id) -> sel(path, None, id, FALSE)
         [] IsNone(r1) /\ IsNone(r2) /\ IsNone(id) -> sel(path, None, None, FALSE)
         [] OTHER -> sel(path, None, None, TRUE)
\* (mutant) Clip leaves the clip id as it was
OpClip_without_id(rs, be, winding) ==
    LET rs1 == flush(rs)
        path == transformed(rs1.current_outline, rs1.graphics_state.transform)
        s == ClipSelect(rs1.graphics_state, path)
        c == create_clip_path(be, s.path, cvt_winding(winding), s.parent)
    IN IF s.bad THEN Ret(rs1, be, Panic("unreachable"))
       ELSE Ret([rs1 EXCEPT !.graphics_state.clip_path =
                                Some([outline |-> s.path, fill_rule |-> cvt_winding(winding)]),
                            !.graphics_state.clip_path_rect = s.r],
                c.be, Ok)
OpClip(rs, be, winding) ==
    LET rs1 == flush(rs)
        path == transformed(rs1.current_outline, rs1.graphics_state.transform)
        s == ClipSelect(rs1.graphics_state, path)
        c == create_clip_path(be, s.path, cvt_winding(winding), s.parent)
    IN IF s.bad THEN Ret(rs1, be, Panic("unreachable"))
       ELSE Ret([rs1 EXCEPT !.graphics_state.clip_path_id = Some(c.id),
                            !.graphics_state.clip_path =
                                Some([outline |-> s.path, fill_rule |-> cvt_winding(winding)]),
                            !.graphics_state.clip_path_rect = s.r],
                c.be, Ok)

\* -- Save / Restore / Transform / stroke style -----------------------------
\* (mutant) Save keeps the graphics state only
OpSave_graphics_only(rs, be) ==
    Ret([rs EXCEPT !.stack = Append(@, <<rs.graphics_state, TextState_new>>)], be, Ok)
OpSave(rs, be) ==
    Ret([rs EXCEPT !.stack = Append(@, <<rs.graphics_state, rs.text_state>>)], be, Ok)
\* (mutant) Restore on an empty stack is ignored
OpRestore_lenient(rs, be) ==
    IF Len(rs.stack) = 0 THEN Ret(rs, be, Ok)
    ELSE LET top == rs.stack[Len(rs.stack)]
         IN Ret([rs EXCEPT !.stack = SubSeq(@, 1, Len(@) - 1),
                           !.graphics_state = top[1],
                           !.text_state = top[2]],
                be, Ok)
OpRestore(rs, be) ==
    IF Len(rs.stack) = 0 THEN Ret(rs, be, Err("graphcs stack is empty"))
    ELSE LET top == rs.stack[Len(rs.stack)]
         IN Ret([rs EXCEPT !.stack = SubSeq(@, 1, Len(@) - 1),
                           !.graphics_state = top[1],
                           !.text_state = top[2]],
                be, Ok)
OpTransform(rs, be, matrix) ==
    Ret([rs EXCEPT !.graphics_state.transform = TMul(@, cvt_matrix(matrix))], be, Ok)
OpLineWidth(rs, be, width) ==
    Ret([rs EXCEPT !.graphics_state.stroke_style.line_width = width], be, Ok)
OpDash(rs, be, pattern, phase) ==
    Ret([rs EXCEPT !.graphics_state.dash_pattern = Some(<<pattern, phase>>)], be, Ok)
\* LineJoin, LineCap, MiterLimit, Flatness, RenderingIntent, Shade, EndText and
\* the marked-content operators have an empty arm
OpNoEffect(rs, be) == Ret(rs, be, Ok)

\* ------------------------------------------------------------------------
\* Colour spaces (pdf::object::ColorSpace), colours (pdf::content::Color) and
\* primitives.  Colour components are integers, 1 being full intensity.
\* ------------------------------------------------------------------------
DeviceGray == [cs |-> "DeviceGray"]
DeviceRGB == [cs |-> "DeviceRGB"]
DeviceCMYK == [cs |-> "DeviceCMYK"]
PatternCS == [cs |-> "Pattern"]
OtherCS == [cs |-> "Other"]
Icc(alternate) == [cs |-> "Icc", alternate |-> alternate]
Named(name) == [cs |-> "Named", name |-> name]
DeviceN(alt, tint) == [cs |-> "DeviceN", alt |-> alt, tint |-> tint]
Separation(alt, f) == [cs |-> "Separation", alt |-> alt, f |-> f]
Indexed(base, hival, lut) == [cs |-> "Indexed", base |-> base, hival |-> hival, lut |-> lut]
\* a pdf Function: its dimensions and the value it yields
Function(input_dim, out) == [input_dim |-> input_dim, out |-> out]
\* Function::apply: Err unless the argument and result lengths fit
fn_apply(f, input, out_len) ==
    IF Len(input) # f.input_dim \/ out_len # Len(f.out) THEN None ELSE Some(f.out)

Integer(v) == [t |-> "Integer", v |-> v, name |-> ""]
Number(v) == [t |-> "Number", v |-> v, name |-> ""]
Name(v) == [t |-> "Name", v |-> 0, name |-> v]
as_number_ok(p) == p.t \in {"Integer", "Number"}
as_integer_ok(p) == p.t = "Integer"
as_name_ok(p) == p.t = "Name"

Gray(g) == [c |-> "Gray", v |-> <<g>>, args |-> <<>>]
Rgb(r, g, b) == [c |-> "Rgb", v |-> <<r, g, b>>, args |-> <<>>]
Cmyk(c, m, y, k) == [c |-> "Cmyk", v |-> <<c, m, y, k>>, args |-> <<>>]
Other(args) == [c |-> "Other", v |-> <<>>, args |-> args]

\* ------------------------------------------------------------------------
\* Resources of the page and of forms; the objects Resolve::get yields
\* ------------------------------------------------------------------------
ExtGState(line_width, fill_alpha, stroke_alpha, font, overprint, overprint_fill, overprint_mode) ==
    [line_width |-> line_width, fill_alpha |-> fill_alpha, stroke_alpha |-> stroke_alpha,
     font |-> font, overprint |-> overprint, overprint_fill |-> overprint_fill,
     overprint_mode |-> overprint_mode]
Empty == [x \in {} |-> x]
PageGraphicsStates ==
    [n \in {"GS1", "GSFont", "GSBadFont", "GSNoRef"} |->
        CASE n = "GS1" -> ExtGState(Some(2), Some(32), None, None, Some(TRUE), None, Some(1))
          [] n = "GSFont" -> ExtGState(None, None, Some(32), Some(<<"FA", 12>>), None, Some(TRUE), None)
          [] n = "GSBadFont" -> ExtGState(None, None, None, Some(<<"FBad", 12>>), None, None, None)
          [] n = "GSNoRef" -> ExtGState(None, None, None, Some(<<"FDangling", 12>>), None, None, None)]
PageFonts ==
    [n \in {"F1", "F2", "FBad", "FStream", "FNoName", "FStd", "FStdGone", "FAnon"} |->
        CASE n = "F1" -> "FA"
          [] n = "F2" -> "FCid"
          [] OTHER -> n]
PageXObjects ==
    [n \in {"Im1", "Fm1", "FmLeaf", "FmSelf", "FmA", "FmB", "FmRes", "FmErr", "FmMiss",
            "FmBadOps", "Ps1", "XDangling"} |-> n]
PageColorSpaces ==
    [n \in {"CsIdx", "CsIdxK", "CsN", "CsNK", "CsSep", "CsIcc", "CsIccAlt", "CsIccIcc",
            "CsNamed", "CsNamedIcc", "CsNamedNamed", "CsOther"} |->
        CASE n = "CsIdx" -> Indexed(DeviceRGB, 1, <<255, 0, 0, 0, 0, 255>>)
          [] n = "CsIdxK" -> Indexed(DeviceCMYK, 0, <<0, 0, 0, 1>>)
          [] n = "CsN" -> DeviceN(DeviceRGB, Function(2, <<1, 0, 1>>))
          [] n = "CsNK" -> DeviceN(DeviceCMYK, Function(1, <<1, 0, 1>>))
          [] n = "CsSep" -> Separation(DeviceGray, Function(1, <<1>>))
          [] n = "CsIcc" -> Icc(None)
          [] n = "CsIccAlt" -> Icc(Some(DeviceGray))
          [] n = "CsIccIcc" -> Icc(Some(Icc(None)))
          [] n = "CsNamed" -> Named("CsIdx")
          [] n = "CsNamedIcc" -> Named("CsIccAlt")
          [] n = "CsNamedNamed" -> Named("CsNamed")
          [] n = "CsOther" -> OtherCS]
PagePatterns == [n \in {"P1"} |-> 7]
ResourcesOf(id) ==
    IF id = "page"
    THEN [graphics_states |-> PageGraphicsStates, fonts |-> PageFonts, xobjects |-> PageXObjects,
          color_spaces |-> PageColorSpaces, pattern |-> PagePatterns]
    ELSE [graphics_states |-> Empty, fonts |-> [n \in {"F1"} |-> "FCid"],
          xobjects |-> [n \in {"Im1"} |-> "Im1"], color_spaces |-> Empty, pattern |-> Empty]
map_get(m, k) == IF k \in DOMAIN m THEN Some(m[k]) ELSE None

\* ------------------------------------------------------------------------
\* Colour conversion (renderstate.rs)
\* ------------------------------------------------------------------------
\* Result<Fill>: ok with a fill, an error, or a panic
COk(fill) == [tag |-> "Ok", msg |-> "", fill |-> fill]
CErr(m) == [tag |-> "Err", msg |-> m, fill |-> Fill_black]
CPanic(m) == [tag |-> "Panic", msg |-> m, fill |-> Fill_black]

gray2rgb(g) == Solid(g, g, g)
\* (mutant) the sums are not clamped
cmyk2rgb_unclamped(c, m, y, k, mode) ==
    Solid(1 - (c + k), 1 - (m + k), 1 - (y + k))
cmyk2rgb(c, m, y, k, mode) ==
    LET clamp(f) == IF f > 1 THEN 1 ELSE f
    IN Solid(1 - clamp(c + k), 1 - clamp(m + k), 1 - clamp(y + k))

\* the value of a numeric argument
num(p) == p.v
\* the colour space the arguments of Color::Other are interpreted in
convert_color2_space(cs, args, resources) ==
    CASE cs.cs = "Icc" ->
            IF IsSome(cs.alternate) THEN Some(Unwrap(cs.alternate))
            ELSE IF Len(args) = 3 THEN Some(DeviceRGB)
            ELSE IF Len(args) = 4 THEN Some(DeviceCMYK)
            ELSE None
      [] cs.cs = "Named" -> map_get(ResourcesOf(resources).color_spaces, cs.name)
      [] OTHER -> Some(cs)
convert_color2_devicen(cs, args, mode) ==
    IF Len(args) # cs.tint.input_dim THEN CPanic("assertion failed: args.len() == tint.input_dim()")
    ELSE IF \E i \in 1..Len(args) : ~as_number_ok(args[i]) THEN CErr("not a number")
    ELSE LET out == cs.tint.out
             alt == IF cs.alt.cs = "Icc" THEN cs.alt.alternate ELSE Some(cs.alt)
         IN CASE IsSome(alt) /\ Unwrap(alt).cs = "DeviceGray" ->
                    IF Len(out) < 1 THEN CPanic("index out of bounds")
                    ELSE COk(Solid(out[1], out[1], out[1]))
              [] IsSome(alt) /\ Unwrap(alt).cs = "DeviceRGB" ->
                    IF Len(out) < 3 THEN CPanic("index out of bounds")
                    ELSE COk(Solid(out[1], out[2], out[3]))
              [] IsSome(alt) /\ Unwrap(alt).cs = "DeviceCMYK" ->
                    IF Len(out) < 4 THEN CPanic("index out of bounds")
                    ELSE COk(cmyk2rgb(out[1], out[2], out[3], out[4], mode))
              [] OTHER -> CErr("Unimplemented: DeviceN colorspace")
convert_color2_separation(cs, args, mode) ==
    IF Len(args) # 1 THEN CErr("expected 1 color arguments")
    ELSE IF ~as_number_ok(args[1]) THEN CErr("not a number")
    ELSE IF cs.alt.cs = "Icc" /\ IsNone(cs.alt.alternate)
         THEN CErr("no alternate color space in ICC profile")
    ELSE LET a == IF cs.alt.cs = "Icc" THEN Unwrap(cs.alt.alternate) ELSE cs.alt
             n == CASE a.cs = "DeviceCMYK" -> 4 [] a.cs = "DeviceRGB" -> 3 [] OTHER -> 1
             o == fn_apply(cs.f, <<num(args[1])>>, n)
         IN IF a.cs \notin {"DeviceCMYK", "DeviceRGB", "DeviceGray"}
            THEN CErr("Unimplemented: Separation")
            ELSE IF IsNone(o) THEN CErr("function")
            ELSE LET v == Unwrap(o)
                 IN CASE a.cs = "DeviceCMYK" -> COk(cmyk2rgb(v[1], v[2], v[3], v[4], mode))
                      [] a.cs = "DeviceRGB" -> COk(Solid(v[1], v[2], v[3]))
                      [] OTHER -> COk(Solid(v[1], v[1], v[1]))
convert_color2_indexed(cs, args, mode) ==
    IF Len(args) # 1 THEN CErr("expected 1 color arguments")
    ELSE IF ~as_integer_ok(args[1]) THEN CErr("not an integer")
    ELSE LET i == num(args[1])
             k == IF cs.base.cs = "DeviceRGB" THEN 3 ELSE 4
         IN IF cs.base.cs \notin {"DeviceRGB", "DeviceCMYK"}
            THEN CErr("Unimplemented: Indexed colorspace with base")
            ELSE IF i < 0 \/ k * i > Len(cs.lut) THEN CPanic("range start index out of range")
            ELSE IF Len(cs.lut) - k * i < k THEN CPanic("index out of bounds")
            ELSE IF k = 3
                 THEN COk(Solid(cs.lut[3 * i + 1], cs.lut[3 * i + 2], cs.lut[3 * i + 3]))
                 ELSE COk(cmyk2rgb(cs.lut[4 * i + 1], cs.lut[4 * i + 2], cs.lut[4 * i + 3],
                                   cs.lut[4 * i + 4], mode))
convert_color2_pattern(args, resources) ==
    IF Len(args) = 0 THEN CPanic("index out of bounds")
    ELSE IF ~as_name_ok(args[1]) THEN CErr("not a name")
    ELSE LET pat == map_get(ResourcesOf(resources).pattern, args[1].name)
         IN IF IsSome(pat) THEN COk(Pattern(Unwrap(pat)))
            ELSE CErr("Unimplemented: Pattern not found")
\* expected n numeric arguments
convert_color2_device(args, n) ==
    IF Len(args) # n THEN CErr("expected color arguments")
    ELSE IF \E i \in 1..n : ~as_number_ok(args[i]) THEN CErr("not a number")
    ELSE COk(Fill_black)
\* fn convert_color2: the fill, and the colour space the slot is left bound to
convert_color2(cs, color, resources, mode) ==
    CASE color.c = "Gray" -> [r |-> COk(gray2rgb(color.v[1])), cs |-> DeviceGray]
      [] color.c = "Rgb" -> [r |-> COk(Solid(color.v[1], color.v[2], color.v[3])), cs |-> DeviceRGB]
      [] color.c = "Cmyk" ->
            [r |-> COk(cmyk2rgb(color.v[1], color.v[2], color.v[3], color.v[4], mode)),
             cs |-> DeviceCMYK]
      [] OTHER ->
            LET args == color.args
                sp == convert_color2_space(cs, args, resources)
                c == Unwrap(sp)
                res ==
                  IF IsNone(sp)
                  THEN IF cs.cs = "Icc" THEN CErr("ICC profile without alternate color space")
                       ELSE CErr("named color space not found")
                  ELSE CASE c.cs = "Icc" -> CErr("nested ICC color space")
                         [] c.cs \in {"DeviceGray", "CalGray"} ->
                              IF convert_color2_device(args, 1).tag # "Ok"
                              THEN convert_color2_device(args, 1)
                              ELSE COk(gray2rgb(num(args[1])))
                         [] c.cs \in {"DeviceRGB", "CalRGB"} ->
                              IF convert_color2_device(args, 3).tag # "Ok"
                              THEN convert_color2_device(args, 3)
                              ELSE COk(Solid(num(args[1]), num(args[2]), num(args[3])))
                         [] c.cs \in {"DeviceCMYK", "CalCMYK"} ->
                              IF convert_color2_device(args, 4).tag # "Ok"
                              THEN convert_color2_device(args, 4)
                              ELSE COk(cmyk2rgb(num(args[1]), num(args[2]), num(args[3]),
                                                num(args[4]), mode))
                         [] c.cs = "DeviceN" -> convert_color2_devicen(c, args, mode)
                         [] c.cs = "Separation" -> convert_color2_separation(c, args, mode)
                         [] c.cs = "Indexed" -> convert_color2_indexed(c, args, mode)
                         [] c.cs = "Pattern" -> convert_color2_pattern(args, resources)
                         [] c.cs = "Other" -> CErr("Unimplemented: Other Color space")
                         [] c.cs = "Named" -> CErr("Unimplemented: nested Named")
            IN [r |-> res, cs |-> cs]
\* fn convert_color
convert_color(cs, color, resources, allow_error_in_option, mode) ==
    [convert_color2(cs, color, resources, mode) EXCEPT
        !.r = IF @.tag = "Err" /\ allow_error_in_option THEN COk(Solid(0, 0, 0)) ELSE @]

\* ------------------------------------------------------------------------
\* Fonts: the font objects of the file, the standard fonts, load_font,
\* FontEntry::build and the font caches
\* ------------------------------------------------------------------------
\* a pdf font object.  embedded: "Ok" (a font program that parses), "Garbage"
\* (a font program that does not parse), "StreamErr" (the stream cannot be
\* decoded) or "None"; to_unicode_ok: the ToUnicode map and the widths parse
PdfFont(embedded, name, is_cid, to_unicode_ok) ==
    [embedded |-> embedded, name |-> name, is_cid |-> is_cid, to_unicode_ok |-> to_unicode_ok]
FontKeys == {"FA", "FCid", "FBad", "FStream", "FNoName", "FStd", "FStdGone", "FAnon", "FToUni"}
FontObject(key) ==
    CASE key = "FA" -> PdfFont("Ok", Some("Alpha"), FALSE, TRUE)
      [] key = "FCid" -> PdfFont("Ok", Some("Cid"), TRUE, TRUE)
      [] key = "FBad" -> PdfFont("Garbage", Some("Bad"), FALSE, TRUE)
      [] key = "FStream" -> PdfFont("StreamErr", Some("Stream"), FALSE, TRUE)
      [] key = "FNoName" -> PdfFont("Ok", None, FALSE, TRUE)
      [] key = "FStd" -> PdfFont("None", Some("Helvetica"), FALSE, TRUE)
      [] key = "FStdGone" -> PdfFont("None", Some("Courier"), FALSE, TRUE)
      [] key = "FAnon" -> PdfFont("None", None, FALSE, TRUE)
      [] key = "FToUni" -> PdfFont("Ok", Some("ToUni"), FALSE, FALSE)
\* Resolve::get of a font reference (ExtGState /Font)
resolve_font(ref) == IF ref \in FontKeys THEN Some(ref) ELSE None
\* StandardCache: fonts.json, and whether the file can be read and parsed
StandardFonts == [n \in {"Helvetica", "Arial", "Courier"} |->
                    IF n = "Courier" THEN "cour.ttf" ELSE "arial.ttf"]
StandardFileOk(file) == file = "arial.ttf"

\* FontEntry::build: TRUE iff it returns Ok
FontEntry_build_ok(key) == FontObject(key).to_unicode_ok /\ IsSome(FontObject(key).name)
\* load_font: tag "Ok" with Some(entry) or None, or tag "Err"
LoadOk(font) == [tag |-> "Ok", msg |-> "", font |-> font]
LoadErr(m) == [tag |-> "Err", msg |-> m, font |-> None]
load_font(key) ==
    LET f == FontObject(key)
        file == IF IsSome(f.name) /\ Unwrap(f.name) \in DOMAIN StandardFonts
                THEN Some(StandardFonts[Unwrap(f.name)])
                ELSE map_get(StandardFonts, "Arial")
        built == IF FontEntry_build_ok(key) THEN LoadOk(Some(key)) ELSE LoadErr("FontEntry::build")
    IN CASE f.embedded = "Ok" -> built
         [] f.embedded = "Garbage" -> LoadErr("Font Error")
         [] f.embedded = "StreamErr" -> LoadErr("stream")
         [] OTHER ->
              IF IsNone(f.name) THEN LoadOk(None)
              ELSE IF IsNone(file) THEN LoadOk(None)
              ELSE IF ~StandardFileOk(Unwrap(file)) THEN LoadOk(None)
              ELSE built
\* Cache::load_font (render/src/cache.rs): a FontEntry that cannot be built
\* yields Ok(None); there is no Arial fallback
cache_load_font(key) ==
    LET f == FontObject(key)
        parsed == IF FontEntry_build_ok(key) THEN LoadOk(Some(key)) ELSE LoadOk(None)
    IN CASE f.embedded = "Ok" -> parsed
         [] f.embedded = "Garbage" -> LoadErr("Font Error")
         [] f.embedded = "StreamErr" -> LoadErr("stream")
         [] OTHER ->
              IF IsNone(f.name) \/ Unwrap(f.name) \notin DOMAIN StandardFonts THEN LoadOk(None)
              ELSE IF ~StandardFileOk(StandardFonts[Unwrap(f.name)]) THEN LoadOk(None)
              ELSE parsed
cache_insert(fonts, key, v) ==
    [k \in DOMAIN fonts \cup {key} |-> IF k = key THEN v ELSE fonts[k]]
\* TraceCache::get_font: the slot of the key is filled on the first call, with
\* None when load_font fails; the error is returned by that call only
trace_get_font(be, key) ==
    IF key \in DOMAIN be.fonts
    THEN [be |-> be, r |-> LoadOk(be.fonts[key]), loaded |-> FALSE]
    ELSE LET l == load_font(key)
         IN [be |-> [be EXCEPT !.fonts = cache_insert(@, key, l.font)], r |-> l, loaded |-> TRUE]
\* Cache::get_font: the slot is filled only when load_font returns Ok.
\* loaded: load_font ran in this call
cache_get_font(be, key) ==
    IF key \in DOMAIN be.fonts
    THEN [be |-> be, r |-> LoadOk(be.fonts[key]), loaded |-> FALSE]
    ELSE LET l == cache_load_font(key)
         IN IF l.tag = "Ok"
            THEN [be |-> [be EXCEPT !.fonts = cache_insert(@, key, l.font)], r |-> l,
                  loaded |-> TRUE]
            ELSE [be |-> be, r |-> l, loaded |-> TRUE]
\* Backend::get_font
get_font(be, key) == IF be.kind = "tracer" THEN trace_get_font(be, key) ELSE cache_get_font(be, key)

\* -- the FontEntry built for a key ------------------------------------------
\* encoding: "Cmap" (TextEncoding::Cmap), "CID" (CID(Some(map))) or "CIDNone"
Space == " "
G(gid, unicode) == [gid |-> gid, unicode |-> unicode]
FontEntryOf(key) ==
    IF FontObject(key).is_cid
    THEN [name |-> Unwrap(FontObject(key).name), is_cid |-> TRUE, encoding |-> "CID",
          cmap |-> [c \in {1, 2, 32} |->
                      CASE c = 1 -> G(Some(1), Some("x"))
                        [] c = 2 -> G(None, Some("y"))
                        [] c = 32 -> G(Some(3), Some(Space))],
          widths |-> None]
    ELSE [name |-> Unwrap(FontObject(key).name), is_cid |-> FALSE, encoding |-> "Cmap",
          cmap |-> [c \in {1, 2, 32} |->
                      CASE c = 1 -> G(Some(1), Some("a"))
                        [] c = 2 -> G(Some(2), None)
                        [] c = 32 -> G(Some(3), Some(Space))],
          widths |-> Some([c \in {1, 2, 32} |-> 500])]
\* Font::glyph: the glyphs of the font program: the length of the outline
\* and the advance (in thousandths, font_matrix being 1/1000)
Glyph(path_len, advance) == [path_len |-> path_len, advance |-> advance]
font_glyph(key, gid) ==
    CASE gid = 0 -> Some(Glyph(1, 600))
      [] gid = 1 -> Some(Glyph(4, 700))
      [] gid = 2 -> Some(Glyph(0, 300))
      [] OTHER -> None
\* Widths::get
widths_get(w, cid) == IF cid \in DOMAIN w THEN w[cid] ELSE 0

\* ------------------------------------------------------------------------
\* FontEntry::build (fontentry.rs): the reconciliation of a font program
\* with the encoding, the ToUnicode map and the CidToGidMap of the pdf font.
\* Maps are functions on their keys; a Unicode fragment is a sequence of
\* code points; a cmap entry is G(gid, unicode) with both parts optional.
\* ------------------------------------------------------------------------
EmptyMap == [k \in {} |-> 0]
unwrap_or_empty(o) == IF IsSome(o) THEN Unwrap(o) ELSE EmptyMap
\* HashMap::insert of every entry of d into m
map_extend(m, d) == [k \in DOMAIN m \cup DOMAIN d |-> IF k \in DOMAIN d THEN d[k] ELSE m[k]]
\* the first index whose value is v (the key a map is inverted at)
key_of(m, v) == CHOOSE k \in DOMAIN m : m[k] = v
map_values(m) == {m[k] : k \in DOMAIN m}

\* a font program as the font crate presents it.  kind: "Type1",
\* "TrueType", "CFF" or "Other"; encoding: what Font::encoding() returns;
\* by_codepoint, by_unicode, by_name: gid_for_codepoint,
\* gid_for_unicode_codepoint, gid_for_name; cmap: the platform cmap of a
\* TrueType font; names, codepoints: unicode_names() and codepoints of a
\* Type1 font; unicode_map, sid_map, codepoint_map, cid: the tables of a CFF
\* font; blank: the glyphs whose outline is empty
FontProgram(kind, num_glyphs, encoding, by_codepoint, by_unicode, by_name) ==
    [kind |-> kind, num_glyphs |-> num_glyphs, encoding |-> encoding,
     by_codepoint |-> by_codepoint, by_unicode |-> by_unicode, by_name |-> by_name,
     cmap |-> None, names |-> EmptyMap, codepoints |-> EmptyMap, unicode_map |-> EmptyMap,
     sid_map |-> EmptyMap, codepoint_map |-> <<>>, cid |-> FALSE, blank |-> {0}]

\* the pdf font object: cid_to_gid_map is None, Some(Identity) or
\* Some(Table(data)); encoding is None or Some(Encoding(base, differences));
\* to_unicode is the outcome of PdfFont::to_unicode
CidIdentity == [t |-> "Identity", data |-> <<>>]
CidTable(data) == [t |-> "Table", data |-> data]
Encoding(base, differences) == [base |-> base, differences |-> differences]
ToUnicodeNone == [tag |-> "None", map |-> EmptyMap]
ToUnicodeMap(map) == [tag |-> "Some", map |-> map]
ToUnicodeErr == [tag |-> "Err", map |-> EmptyMap]
FontDict(is_cid, cid_to_gid_map, encoding, to_unicode, widths_ok, name) ==
    [is_cid |-> is_cid, cid_to_gid_map |-> cid_to_gid_map, encoding |-> encoding,
     to_unicode |-> to_unicode, widths_ok |-> widths_ok, name |-> name]

\* the tables of the pdf_encoding crate the fonts at hand touch:
\* glyphname_to_unicode, Encoding::forward_map and Encoding::to
GlyphNames == ("A" :> <<65>>) @@ ("B" :> <<66>>) @@ ("space" :> <<32>>)
glyphname_to_unicode(name) == map_get(GlyphNames, name)
forward_map(enc) ==
    IF enc \in {"WinAnsiEncoding", "AdobeStandard"}
    THEN (32 :> 32) @@ (65 :> 65) @@ (66 :> 66)
    ELSE EmptyMap
encoding_to(source, dest) ==
    IF DOMAIN forward_map(source) = {} THEN None
    ELSE IF dest = "Unicode" \/ DOMAIN forward_map(dest) # {} THEN Some(forward_map(source))
    ELSE None
\* the base of the private-use code points given to glyphs without Unicode
PrivateUse == 61440

\* the three outcomes of TextEncoding
EncodingCID(map) == [t |-> "CID", map |-> map]
EncodingCIDNone == [t |-> "CIDNone", map |-> EmptyMap]
EncodingCmap(map) == [t |-> "Cmap", map |-> map]

\* font_cmap: the platform cmap of a TrueType or OpenType font
font_cmap(font) == IF font.kind = "TrueType" THEN font.cmap ELSE None
\* glyph_unicode: the Unicode of the glyphs by the font program's own tables
glyph_unicode(font) ==
    CASE font.kind = "Type1" -> font.names
      [] IsSome(font_cmap(font)) ->
           [g \in map_values(Unwrap(font.cmap)) |-> <<key_of(Unwrap(font.cmap), g)>>]
      [] font.kind = "CFF" ->
           [g \in map_values(font.unicode_map) |-> <<key_of(font.unicode_map, g)>>]
      [] OTHER -> [g \in 0..(font.num_glyphs - 1) |-> <<g>>]
\* build_map: the generic CID map, None when there is nothing to build from
build_map(font, to_unicode) ==
    LET tu == to_unicode.map
        map1 == [cid \in DOMAIN tu |-> G(map_get(font.by_codepoint, cid), Some(tu[cid]))]
        map2 == [cid \in DOMAIN tu |-> G(map_get(font.sid_map, cid), Some(tu[cid]))]
        num1 == Cardinality(DOMAIN tu \cap DOMAIN font.by_codepoint)
        num2 == Cardinality(DOMAIN tu \cap DOMAIN font.sid_map)
        cm == font.codepoint_map
    IN CASE to_unicode.tag = "Some" ->
              Some(IF font.kind = "CFF" /\ num2 > num1 THEN map2 ELSE map1)
         [] IsSome(font_cmap(font)) ->
              Some([cid \in DOMAIN Unwrap(font.cmap) |->
                      G(Some(Unwrap(font.cmap)[cid]), Some(<<PrivateUse + cid>>))])
         [] font.kind = "CFF" /\ font.cid ->
              Some([sid \in DOMAIN font.sid_map |->
                      G(Some(font.sid_map[sid]), Some(<<PrivateUse + sid>>))])
         [] font.kind = "CFF" ->
              Some([cid \in {c \in 0..(Len(cm) - 1) : cm[c + 1] # 0} |->
                      G(Some(cm[cid + 1]), Some(<<PrivateUse + cm[cid + 1]>>))])
         [] OTHER -> None
\* TextEncoding::CID(build_map())
encoding_generic(font, to_unicode) ==
    IF IsSome(build_map(font, to_unicode))
    THEN EncodingCID(Unwrap(build_map(font, to_unicode)))
    ELSE EncodingCIDNone
\* the arm of an explicit CidToGidMap
encoding_cid_to_gid(font, map, to_unicode) ==
    IF map.t = "Identity"
    THEN IF to_unicode.tag = "Some"
         THEN EncodingCID([cid \in DOMAIN to_unicode.map |->
                             G(Some(cid), Some(to_unicode.map[cid]))])
         ELSE EncodingCIDNone
    ELSE EncodingCmap([cid \in 0..(Len(map.data) - 1) |->
                         G(Some(map.data[cid + 1]),
                           IF to_unicode.tag = "Some" THEN map_get(to_unicode.map, cid)
                           ELSE map_get(glyph_unicode(font), map.data[cid + 1]))])
\* BaseEncoding to the Encoding its codes are drawn from
source_encoding(base_encoding) ==
    CASE base_encoding = Some("StandardEncoding") -> Some("AdobeStandard")
      [] base_encoding = Some("SymbolEncoding") -> Some("AdobeSymbol")
      [] base_encoding = Some("WinAnsiEncoding") -> Some("WinAnsiEncoding")
      [] base_encoding = Some("MacRomanEncoding") -> Some("MacRomanEncoding")
      [] base_encoding = Some("MacExpertEncoding") -> Some("AdobeExpert")
      [] OTHER -> None
\* the cmap seeded from the base encoding: transcoded to the font's
\* encoding, or through Unicode, or from the CFF code table
cmap_base(font, source, dest) ==
    CASE IsSome(source) /\ IsSome(dest) ->
           LET tr == unwrap_or_empty(encoding_to(Unwrap(source), Unwrap(dest)))
               forward == forward_map(Unwrap(source))
           IN [b \in {c \in DOMAIN tr : tr[c] \in DOMAIN font.by_codepoint} |->
                 G(Some(font.by_codepoint[tr[b]]),
                   IF b \in DOMAIN forward THEN Some(<<forward[b]>>) ELSE None)]
      [] IsSome(source) ->
           LET encoder == unwrap_or_empty(encoding_to(Unwrap(source), "Unicode"))
           IN [b \in {c \in DOMAIN encoder : encoder[c] \in DOMAIN font.by_unicode} |->
                 G(Some(font.by_unicode[encoder[b]]), Some(<<encoder[b]>>))]
      [] font.kind = "CFF" ->
           [cp \in 0..(Len(font.codepoint_map) - 1) |->
              G(Some(font.codepoint_map[cp + 1]),
                map_get(glyph_unicode(font), font.codepoint_map[cp + 1]))]
      [] OTHER -> EmptyMap
\* the entry of one code of the differences table
difference_entry(font, cp, name) ==
    LET uni == glyphname_to_unicode(name)
        gid == IF name \in DOMAIN font.by_name THEN font.by_name[name]
               ELSE IF IsSome(uni) /\ Len(Unwrap(uni)) > 0
                       /\ Unwrap(uni)[1] \in DOMAIN font.by_unicode
                    THEN font.by_unicode[Unwrap(uni)[1]]
               ELSE IF cp \in DOMAIN font.by_codepoint THEN font.by_codepoint[cp]
               ELSE cp
    IN G(Some(gid), IF IsSome(uni) THEN uni ELSE Some(<<PrivateUse + gid>>))
\* the entries added when the pdf font has no encoding: from ToUnicode, from
\* the codes of a Type1 font, or taking the text to hold Unicode code points
cmap_unencoded(font, to_unicode) ==
    LET gu == glyph_unicode(font)
    IN CASE to_unicode.tag = "Some" ->
              [cp \in DOMAIN to_unicode.map \cap DOMAIN font.by_unicode |->
                 G(Some(font.by_unicode[cp]), Some(to_unicode.map[cp]))]
         [] font.kind = "Type1" ->
              [cp \in DOMAIN font.codepoints |->
                 G(Some(font.codepoints[cp]), map_get(gu, font.codepoints[cp]))]
         [] OTHER ->
              [cp \in {gu[g][1] : g \in {h \in DOMAIN gu : Len(gu[h]) > 0}} |->
                 LET g == CHOOSE h \in DOMAIN gu : Len(gu[h]) > 0 /\ gu[h][1] = cp
                 IN G(Some(g), Some(gu[g]))]
\* the arm of a single-byte font
encoding_simple(font, pdf, to_unicode) ==
    LET base_encoding == IF IsSome(pdf.encoding) THEN Some(Unwrap(pdf.encoding).base) ELSE None
        seeded == cmap_base(font, source_encoding(base_encoding), font.encoding)
        cmap == IF IsSome(pdf.encoding)
                THEN map_extend(seeded,
                                [cp \in DOMAIN Unwrap(pdf.encoding).differences |->
                                   difference_entry(font, cp, Unwrap(pdf.encoding).differences[cp])])
                ELSE map_extend(seeded, cmap_unencoded(font, to_unicode))
    IN IF DOMAIN cmap = {} THEN encoding_generic(font, to_unicode) ELSE EncodingCmap(cmap)

\* -- require_unique_unicode ------------------------------------------------
\* the range the synthetic code points are drawn from
UniqueFirst == 57344
UniqueLast == 63488
\* the entries of a cmap sorted by glyph id (and by code among equal ids);
\* an entry without a glyph comes first
gid_rank(e) == IF IsSome(e.gid) THEN Unwrap(e.gid) ELSE 0 - 1
RECURSIVE sorted_by_gid(_, _)
sorted_by_gid(cmap, todo) ==
    IF todo = {} THEN <<>>
    ELSE LET c == CHOOSE k \in todo :
                    \A o \in todo : \/ gid_rank(cmap[k]) < gid_rank(cmap[o])
                                    \/ gid_rank(cmap[k]) = gid_rank(cmap[o]) /\ k <= o
         IN <<c>> \o sorted_by_gid(cmap, todo \ {c})
\* the second and later occurrences of a fragment lose it
RECURSIVE deduplicate(_, _, _, _)
deduplicate(cmap, order, i, seen) ==
    IF i > Len(order) THEN cmap
    ELSE LET e == cmap[order[i]]
         IN IF IsSome(e.unicode) /\ Unwrap(e.unicode) \in seen
            THEN deduplicate([cmap EXCEPT ![order[i]].unicode = None], order, i + 1, seen)
            ELSE deduplicate(cmap, order, i + 1,
                             IF IsSome(e.unicode) THEN seen \cup {Unwrap(e.unicode)} ELSE seen)
\* the code points of the fragment of an entry
fragment_codes(e) ==
    IF IsSome(e.unicode) THEN {Unwrap(e.unicode)[i] : i \in 1..Len(Unwrap(e.unicode))} ELSE {}
\* the next code point at or after next that no glyph carries already
RECURSIVE next_free(_, _)
next_free(next, used) == IF next \in used THEN next_free(next + 1, used) ELSE next
\* the entries left without a fragment whose glyph is not blank receive the
\* next free code points, up to UniqueLast
RECURSIVE assign_private(_, _, _, _, _, _)
assign_private(font, cmap, order, i, next, used) ==
    IF i > Len(order) THEN cmap
    ELSE LET e == cmap[order[i]]
             code == next_free(next, used)
         IN IF IsNone(e.unicode) /\ IsSome(e.gid) /\ Unwrap(e.gid) \notin font.blank
                                  /\ code < UniqueLast
            THEN assign_private(font, [cmap EXCEPT ![order[i]].unicode = Some(<<code>>)],
                                order, i + 1, code + 1, used)
            ELSE assign_private(font, cmap, order, i + 1, next, used)
\* (mutant) fragments are synthesised but duplicates are kept
unique_unicode_keeping_duplicates(font, encoding) ==
    IF encoding.t = "CIDNone" THEN encoding
    ELSE [encoding EXCEPT !.map = assign_private(font, @, sorted_by_gid(@, DOMAIN @), 1,
                                                 UniqueFirst, {})]
\* the post-processing of the cmap when require_unique_unicode is set
unique_unicode(font, encoding) ==
    IF encoding.t = "CIDNone" THEN encoding
    ELSE LET order == sorted_by_gid(encoding.map, DOMAIN encoding.map)
             used == {u \in UNION {fragment_codes(encoding.map[c]) : c \in DOMAIN encoding.map} :
                        u >= UniqueFirst /\ u < UniqueLast}
         IN [encoding EXCEPT !.map = assign_private(font, deduplicate(@, order, 1, {}),
                                                    order, 1, UniqueFirst, used)]

\* FontEntry::build: tag "Ok" with the entry, or tag "Err"
BuildOk(entry) == [tag |-> "Ok", msg |-> "", entry |-> Some(entry)]
BuildErr(m) == [tag |-> "Err", msg |-> m, entry |-> None]
build_encoding(font, pdf) ==
    IF IsSome(pdf.cid_to_gid_map)
    THEN encoding_cid_to_gid(font, Unwrap(pdf.cid_to_gid_map), pdf.to_unicode)
    ELSE IF IsSome(pdf.encoding) /\ Unwrap(pdf.encoding).base = "IdentityH"
    THEN encoding_generic(font, pdf.to_unicode)
    ELSE encoding_simple(font, pdf, pdf.to_unicode)
FontEntry_build(font, pdf, require_unique_unicode) ==
    IF pdf.to_unicode.tag = "Err" THEN BuildErr("to_unicode")
    ELSE IF ~pdf.widths_ok THEN BuildErr("widths")
    ELSE IF IsNone(pdf.name) THEN BuildErr("font has no name")
    ELSE BuildOk([encoding |-> IF require_unique_unicode
                               THEN unique_unicode(font, build_encoding(font, pdf))
                               ELSE build_encoding(font, pdf),
                  is_cid |-> \/ pdf.is_cid
                             \/ IsSome(pdf.cid_to_gid_map)
                             \/ IsSome(pdf.encoding) /\ Unwrap(pdf.encoding).base = "IdentityH",
                  name |-> Unwrap(pdf.name)])

\* ------------------------------------------------------------------------
\* Text: TextState::draw_text, RenderState::text, the text operators
\* ------------------------------------------------------------------------
\* a transform of user space acting on text-space lengths
TScale(t) == [t EXCEPT !.m13 = @ * TextUnit, !.m23 = @ * TextUnit]
Span_default == [text |-> <<>>, chars |-> <<>>, width |-> 0, bbox |-> <<>>]
\* the codepoints of a string: two bytes each for a CID font (a trailing odd
\* byte is dropped), one byte each otherwise
RECURSIVE chunks_exact2(_)
chunks_exact2(data) ==
    IF Len(data) < 2 THEN <<>>
    ELSE <<256 * data[1] + data[2]>> \o chunks_exact2(SubSeq(data, 3, Len(data)))
codepoints(e, data) == IF e.is_cid THEN chunks_exact2(data) ELSE data
\* (gid, unicode) of a codepoint
glyph_of(e, cid) ==
    CASE e.encoding = "CIDNone" -> G(Some(cid), Some(<<"U+", cid>>))
      [] e.encoding = "CID" -> IF cid \in DOMAIN e.cmap THEN e.cmap[cid] ELSE G(None, None)
      [] OTHER -> IF cid \in DOMAIN e.cmap THEN e.cmap[cid] ELSE G(None, None)
text_draw_mode(ts, gs) ==
    CASE ts.mode \in {"Fill", "FillAndClip"} ->
            Some([kind |-> "Fill", fill |-> <<gs.fill_color, gs.fill_color_alpha>>])
      [] ts.mode = "FillThenStroke" ->
            Some([kind |-> "FillStroke", fill |-> <<gs.fill_color, gs.fill_color_alpha>>,
                  stroke |-> <<gs.stroke_color, gs.stroke_color_alpha>>,
                  stroke_mode |-> gs_stroke(gs)])
      [] ts.mode = "Invisible" -> None
      [] OTHER ->
            Some([kind |-> "Stroke", stroke |-> <<gs.stroke_color, gs.stroke_color_alpha>>,
                  stroke_mode |-> gs_stroke(gs)])
\* one turn of the loop over the glyphs of draw_text; st is [ts, be, span]
draw_text_glyph(st, gs, key, cid) ==
    LET ts == st.ts
        e == FontEntryOf(key)
        g == glyph_of(e, cid)
        is_space == e.encoding = "Cmap" /\ g.unicode = Some(Space)
        gid == IF IsSome(g.gid) THEN Unwrap(g.gid) ELSE 0
        glyph == font_glyph(key, gid)
        tr == row_major(ts.horiz_scale * ts.font_size, 0, 0, 0, ts.font_size, ts.rise)
        width == IF IsSome(e.widths)
                 THEN widths_get(Unwrap(e.widths), cid) * ts.horiz_scale * ts.font_size
                 ELSE IF IsSome(glyph) THEN tr.m11 * Unwrap(glyph).advance
                 ELSE 0
        space_advance == ts.word_space * ts.horiz_scale * 1000 + width
        advance == ts.char_space * ts.horiz_scale * 1000 + width
        transform == <<gs.transform, ts.text_matrix, tr>>
        drawn == IsSome(glyph) /\ Unwrap(glyph).path_len # 0
        be1 == IF drawn /\ IsSome(text_draw_mode(ts, gs))
               THEN backend_call(st.be, [call |-> "draw_glyph", gid |-> gid,
                                         mode |-> Unwrap(text_draw_mode(ts, gs)),
                                         transform |-> transform, op_nr |-> st.be.op_nr])
               ELSE st.be
        span == st.span
    IN IF is_space
       THEN [ts |-> [ts EXCEPT !.text_matrix = TMul(@, from_translation(<<space_advance, 0>>))],
             be |-> st.be,
             span |-> [span EXCEPT !.width = @ + space_advance, !.text = Append(@, Space)]]
       ELSE [ts |-> [ts EXCEPT !.text_matrix = TMul(@, from_translation(<<advance, 0>>))],
             be |-> be1,
             span |-> [span EXCEPT
                         !.bbox = IF drawn THEN Append(@, <<gs.transform, transform, gid>>) ELSE @,
                         !.text = IF IsSome(g.unicode) THEN Append(@, Unwrap(g.unicode)) ELSE @,
                         !.chars = IF IsSome(g.unicode)
                                   THEN Append(@, [offset |-> Len(span.text), pos |-> span.width,
                                                   width |-> width])
                                   ELSE @,
                         !.width = @ + advance]]
RECURSIVE draw_text_loop(_, _, _, _, _)
draw_text_loop(st, gs, key, cps, i) ==
    IF i > Len(cps) THEN st
    ELSE draw_text_loop(draw_text_glyph(st, gs, key, cps[i]), gs, key, cps, i + 1)
\* TextState::draw_text
draw_text(st, gs, data) ==
    IF IsNone(st.ts.font_entry) THEN st
    ELSE LET key == Unwrap(st.ts.font_entry)
         IN draw_text_loop(st, gs, key, codepoints(FontEntryOf(key), data), 1)

\* the items of a TextDrawAdjusted array
TextItem(data) == [t |-> "Text", data |-> data]
SpacingItem(offset) == [t |-> "Spacing", offset |-> offset]
RECURSIVE draw_adjusted(_, _, _, _)
draw_adjusted(st, gs, array, i) ==
    IF i > Len(array) THEN st
    ELSE LET arg == array[i]
             a == ts_advance(st.ts, 0 - arg.offset)
             st1 == IF arg.t = "Text" THEN draw_text(st, gs, arg.data)
                    ELSE [st EXCEPT !.ts = a.ts, !.span.width = @ + a.advance]
         IN draw_adjusted(st1, gs, array, i + 1)

\* the bounding rectangle of a transformed rectangle
transform_rect(t, r) ==
    LET ps == <<TApply(t, rect_origin(r)), TApply(t, rect_upper_right(r)),
                TApply(t, rect_lower_right(r)), TApply(t, rect_lower_left(r))>>
        xs == [i \in 1..4 |-> ps[i][1]]
        ys == [i \in 1..4 |-> ps[i][2]]
    IN RectF_from_points(<<SeqMin(xs), SeqMin(ys)>>, <<SeqMax(xs), SeqMax(ys)>>)
\* RenderState::text; inner is the state [ts, be, span] left by the closure
rs_text(rs, tm, inner, op_nr) ==
    LET gs == rs.graphics_state
        ts == inner.ts
        span == inner.span
        transform == TMul(TScale(gs.transform), TMul(tm, from_scale(<<1, 0 - 1>>)))
        p1 == translation(tm)
        p2 == translation(TMul(tm, from_translation(<<span.width, ts.font_size * TextUnit>>)))
        rect == transform_rect(TScale(gs.transform),
                               RectF_from_points(<<Min(p1[1], p2[1]), Min(p1[2], p2[2])>>,
                                                 <<Max(p1[1], p2[1]), Max(p1[2], p2[2])>>))
        text_span == [rect |-> rect, width |-> span.width, bbox |-> span.bbox,
                      text |-> span.text, chars |-> span.chars, font |-> ts.font_entry,
                      font_size |-> ts.font_size, color |-> gs.fill_color,
                      alpha |-> gs.fill_color_alpha, mode |-> ts.mode,
                      transform |-> transform, op_nr |-> op_nr]
    IN Ret([rs EXCEPT !.text_state = ts],
           backend_call(inner.be, [call |-> "add_text", span |-> text_span,
                                   clip |-> gs.clip_path_id]),
           Ok)
OpTextDraw(rs, be, text, op_nr) ==
    rs_text(rs, rs.text_state.text_matrix,
            draw_text([ts |-> rs.text_state, be |-> be, span |-> Span_default],
                      rs.graphics_state, text),
            op_nr)
\* (mutant) the span is handed to the backend a second time
OpTextDrawAdjusted_twice(rs, be, array, op_nr) ==
    LET r == rs_text(rs, rs.text_state.text_matrix,
                     draw_adjusted([ts |-> rs.text_state, be |-> be, span |-> Span_default],
                                   rs.graphics_state, array, 1),
                     op_nr)
    IN Ret(r.rs, backend_call(r.be, r.be.calls[Len(r.be.calls)]), r.res)
OpTextDrawAdjusted(rs, be, array, op_nr) ==
    rs_text(rs, rs.text_state.text_matrix,
            draw_adjusted([ts |-> rs.text_state, be |-> be, span |-> Span_default],
                          rs.graphics_state, array, 1),
            op_nr)

\* the operators that set one field of the text state
OpBeginText(rs, be) == Ret([rs EXCEPT !.text_state = ts_reset_matrix(@)], be, Ok)
OpCharSpacing(rs, be, char_space) == Ret([rs EXCEPT !.text_state.char_space = char_space], be, Ok)
OpWordSpacing(rs, be, word_space) == Ret([rs EXCEPT !.text_state.word_space = word_space], be, Ok)
\* horiz_scale is a percentage; the state keeps 0.01 * horiz_scale
OpTextScaling(rs, be, horiz_scale) ==
    Ret([rs EXCEPT !.text_state.horiz_scale = (HundredPercent * horiz_scale) \div 100], be, Ok)
OpLeading(rs, be, leading) == Ret([rs EXCEPT !.text_state.leading = leading], be, Ok)
OpTextRenderMode(rs, be, mode) == Ret([rs EXCEPT !.text_state.mode = mode], be, Ok)
OpTextRise(rs, be, rise) == Ret([rs EXCEPT !.text_state.rise = rise], be, Ok)
OpMoveTextPosition(rs, be, v) == Ret([rs EXCEPT !.text_state = ts_translate(@, v)], be, Ok)
OpSetTextMatrix(rs, be, matrix) ==
    Ret([rs EXCEPT !.text_state = ts_set_matrix(@, TScale(cvt_matrix(matrix)))], be, Ok)
OpTextNewline(rs, be) == Ret([rs EXCEPT !.text_state = ts_next_line(@)], be, Ok)
\* what TextFont and GraphicsState make of the outcome g of get_font: an
\* error is returned, a font is selected at the size, no font leaves the
\* text state without one
font_result(rs, g, size) ==
    IF g.r.tag = "Err" THEN Ret(rs, g.be, Err(g.r.msg))
    ELSE IF IsSome(g.r.font)
         THEN Ret([rs EXCEPT !.text_state.font_entry = g.r.font,
                             !.text_state.font_size = size], g.be, Ok)
         ELSE Ret([rs EXCEPT !.text_state.font_entry = None], g.be, Ok)
\* TextFont: a name missing from the resources leaves the text state without
\* a font
OpTextFont(rs, be, name, size) ==
    LET font_ref == map_get(ResourcesOf(rs.resources).fonts, name)
    IN IF IsNone(font_ref)
       THEN Ret([rs EXCEPT !.text_state.font_entry = None], be, Ok)
       ELSE font_result(rs, get_font(be, Unwrap(font_ref)), size)

\* ------------------------------------------------------------------------
\* ExtGState and colour operators
\* ------------------------------------------------------------------------
\* Op::GraphicsState: the line width and the alpha values of the ExtGState gs
gstate_alpha(rs, gs) ==
    [rs EXCEPT !.graphics_state =
        set_stroke_alpha(
            set_fill_alpha([@ EXCEPT !.stroke_style.line_width =
                                IF IsSome(gs.line_width) THEN Unwrap(gs.line_width) ELSE @],
                           IF IsSome(gs.fill_alpha) THEN Unwrap(gs.fill_alpha) ELSE AlphaOne),
            IF IsSome(gs.stroke_alpha) THEN Unwrap(gs.stroke_alpha) ELSE AlphaOne)]
\* Op::GraphicsState: the /Font entry of gs
gstate_font(rs, be, gs) ==
    IF IsNone(gs.font) THEN Ret(rs, be, Ok)
    ELSE IF IsNone(resolve_font(Unwrap(gs.font)[1])) THEN Ret(rs, be, Err("resolve"))
    ELSE font_result(rs, get_font(be, Unwrap(resolve_font(Unwrap(gs.font)[1]))),
                     Unwrap(gs.font)[2])
\* Op::GraphicsState: the overprint entries of gs, reached unless the /Font
\* entry has returned an error (r)
gstate_overprint(r, gs) ==
    IF ~IsOk(r.res) THEN r
    ELSE Ret([r.rs EXCEPT
                !.graphics_state.overprint_fill =
                    IF IsSome(gs.overprint_fill) THEN Unwrap(gs.overprint_fill)
                    ELSE IF IsSome(gs.overprint) THEN Unwrap(gs.overprint) ELSE @,
                !.graphics_state.overprint_stroke =
                    IF IsSome(gs.overprint) THEN Unwrap(gs.overprint) ELSE @,
                !.graphics_state.overprint_mode =
                    IF IsSome(gs.overprint_mode) THEN Unwrap(gs.overprint_mode) ELSE @],
             r.be, Ok)
OpGraphicsState(rs, be, name) ==
    LET o == map_get(ResourcesOf(rs.resources).graphics_states, name)
    IN IF IsNone(o) THEN Ret(rs, be, Err("NoneError"))
       ELSE gstate_overprint(gstate_font(gstate_alpha(rs, Unwrap(o)), be, Unwrap(o)), Unwrap(o))

\* what a colour operator makes of the outcome c of convert_color: the slot
\* stays bound to the colour space c.cs, the colour is set if there is one,
\* and an error or a panic is passed on
color_result(rs, be, c, stroke) ==
    Ret([rs EXCEPT !.graphics_state =
            IF stroke
            THEN (IF c.r.tag = "Ok"
                  THEN set_stroke_color([@ EXCEPT !.stroke_color_space = c.cs], c.r.fill)
                  ELSE [@ EXCEPT !.stroke_color_space = c.cs])
            ELSE (IF c.r.tag = "Ok"
                  THEN set_fill_color([@ EXCEPT !.fill_color_space = c.cs], c.r.fill)
                  ELSE [@ EXCEPT !.fill_color_space = c.cs])],
        be,
        CASE c.r.tag = "Ok" -> Ok
          [] c.r.tag = "Err" -> Err(c.r.msg)
          [] OTHER -> Panic(c.r.msg))
OpStrokeColor(rs, be, color) ==
    color_result(rs, be,
                 convert_color(rs.graphics_state.stroke_color_space, color, rs.resources,
                               rs.resolve.allow_error_in_option, blend_mode_stroke(rs)),
                 TRUE)
OpFillColor(rs, be, color) ==
    color_result(rs, be,
                 convert_color(rs.graphics_state.fill_color_space, color, rs.resources,
                               rs.resolve.allow_error_in_option, blend_mode_fill(rs)),
                 FALSE)
\* RenderState::color_space
color_space(rs, name) ==
    CASE name = "DeviceGray" -> Some(DeviceGray)
      [] name = "DeviceRGB" -> Some(DeviceRGB)
      [] name = "DeviceCMYK" -> Some(DeviceCMYK)
      [] name = "Pattern" -> Some(PatternCS)
      [] OTHER -> map_get(ResourcesOf(rs.resources).color_spaces, name)
OpFillColorSpace(rs, be, name) ==
    LET cs == color_space(rs, name)
    IN IF IsNone(cs) THEN Ret(rs, be, Err("color space not present"))
       ELSE Ret([rs EXCEPT !.graphics_state =
                     set_fill_color([@ EXCEPT !.fill_color_space = Unwrap(cs)], Fill_black)],
                be, Ok)
OpStrokeColorSpace(rs, be, name) ==
    LET cs == color_space(rs, name)
    IN IF IsNone(cs) THEN Ret(rs, be, Err("color space not present"))
       ELSE Ret([rs EXCEPT !.graphics_state =
                     set_stroke_color([@ EXCEPT !.stroke_color_space = Unwrap(cs)], Fill_black)],
                be, Ok)
OpInlineImage(rs, be, image) ==
    Ret(rs, backend_call(be, [call |-> "draw_inline_image", image |-> image,
                              transform |-> rs.graphics_state.transform,
                              mode |-> blend_mode_fill(rs),
                              clip |-> rs.graphics_state.clip_path_id]), Ok)

\* ------------------------------------------------------------------------
\* Operators of a content stream, and the XObjects of the file
\* ------------------------------------------------------------------------
Op(kind, arg) == [kind |-> kind, arg |-> arg]
NoArg == <<>>
Image == [kind |-> "Image", resources |-> None, ops |-> None]
Postscript == [kind |-> "Postscript", resources |-> None, ops |-> None]
\* a Form XObject: its own resources, if any, and its operators (None when
\* the content stream cannot be parsed)
Form(resources, ops) == [kind |-> "Form", resources |-> resources, ops |-> ops]
\* Resolve::get of an XObject reference
XObjectOf(ref) ==
    CASE ref = "Im1" -> Some(Image)
      [] ref = "Ps1" -> Some(Postscript)
      [] ref = "FmLeaf" ->
            Some(Form(None, Some(<<Op("Save", NoArg), Op("Transform", Matrix(2, 0, 0, 2, 1, 1)),
                              Op("LineWidth", 3), Op("CharSpacing", 1),
                              Op("Rect", Rect(0, 0, 1, 1)), Op("Fill", "NonZero"),
                              Op("MoveTo", <<1, 1>>)>>)))
      [] ref = "Fm1" ->
            Some(Form(None, Some(<<Op("Rect", Rect(0, 0, 1, 1)), Op("Clip", "NonZero"),
                              Op("XObject", "FmLeaf"), Op("FillColor", Gray(1)),
                              Op("XObject", "Im1")>>)))
      [] ref = "FmSelf" -> Some(Form(None, Some(<<Op("Stroke", NoArg), Op("XObject", "FmSelf")>>)))
      [] ref = "FmA" -> Some(Form(None, Some(<<Op("XObject", "FmB")>>)))
      [] ref = "FmB" -> Some(Form(None, Some(<<Op("Save", NoArg), Op("XObject", "FmA")>>)))
      [] ref = "FmRes" ->
            Some(Form(Some("form"), Some(<<Op("XObject", "Im1"), Op("TextFont", <<"F1", 10>>),
                                      Op("TextFont", <<"F2", 10>>)>>)))
      [] ref = "FmErr" ->
            Some(Form(None, Some(<<Op("Rect", Rect(0, 0, 1, 1)), Op("Fill", "NonZero"),
                              Op("Restore", NoArg), Op("Rect", Rect(0, 0, 2, 2)),
                              Op("Fill", "NonZero")>>)))
      [] ref = "FmMiss" -> Some(Form(None, Some(<<Op("Stroke", NoArg), Op("XObject", "Nope"),
                                             Op("Stroke", NoArg)>>)))
      [] ref = "FmBadOps" -> Some(Form(None, None))
      [] OTHER -> None

\* ------------------------------------------------------------------------
\* RenderState::draw_op and RenderState::draw_form.  depth counts the
\* draw_form calls the interpreter is nested in; the call stack holds
\* MaxDepth of them.
\* ------------------------------------------------------------------------
RECURSIVE draw_op(_, _, _, _, _)
RECURSIVE form_loop(_, _, _, _, _)
\* the loop of draw_form over the operators of the form: stops at the first
\* operator that does not return Ok
form_loop(inner, be, ops, i, depth) ==
    IF i >= Len(ops) THEN Ret(inner, be, Ok)
    ELSE LET r == draw_op(inner, be, ops[i + 1], i, depth)
         IN IF IsOk(r.res) THEN form_loop(r.rs, r.be, ops, i + 1, depth) ELSE r
\* the RenderState draw_form interprets the form with
form_inner(rs, form) ==
    [resolve |-> rs.resolve,
     graphics_state |-> [rs.graphics_state EXCEPT
                            !.stroke_alpha = rs.graphics_state.stroke_color_alpha,
                            !.fill_alpha = rs.graphics_state.fill_color_alpha],
     text_state |-> rs.text_state,
     stack |-> <<>>,
     current_outline |-> Outline_new,
     current_contour |-> Contour_new,
     resources |-> IF IsSome(form.resources) THEN Unwrap(form.resources) ELSE rs.resources]
\* (mutant) the caller goes on with the graphics state the form ended with
form_return_leaky(rs, inner) == [rs EXCEPT !.graphics_state = inner.graphics_state]
\* what draw_form leaves of the caller's RenderState
form_return(rs, inner) == rs
draw_form(rs, be, form, depth) ==
    IF depth >= MaxDepth THEN Ret(rs, be, StackOverflow)
    ELSE IF IsNone(form.ops) THEN Ret(rs, be, Err("operations"))
    ELSE LET r == form_loop(form_inner(rs, form), be, Unwrap(form.ops), 0, depth + 1)
         IN Ret(form_return(rs, r.rs), r.be, r.res)
\* (mutant) an unknown name is skipped when allow_error_in_option is set
OpXObject_skipping(rs, be, name, depth) ==
    LET xobject_ref == map_get(ResourcesOf(rs.resources).xobjects, name)
        xobject == XObjectOf(Unwrap(xobject_ref))
        x == Unwrap(xobject)
    IN IF IsNone(xobject_ref)
       THEN Ret(rs, be, IF rs.resolve.allow_error_in_option THEN Ok ELSE Err("NotFound"))
       ELSE IF IsNone(xobject) THEN Ret(rs, be, Err("resolve"))
       ELSE CASE x.kind = "Image" ->
                   Ret(rs, backend_call(be, [call |-> "draw_image", xref |-> Unwrap(xobject_ref),
                                             transform |-> rs.graphics_state.transform,
                                             mode |-> blend_mode_fill(rs),
                                             clip |-> rs.graphics_state.clip_path_id]), Ok)
              [] x.kind = "Form" -> draw_form(rs, be, x, depth)
              [] OTHER -> Ret(rs, backend_call(be, [call |-> "bug_postscript"]), Ok)
OpXObject(rs, be, name, depth) ==
    LET xobject_ref == map_get(ResourcesOf(rs.resources).xobjects, name)
        xobject == XObjectOf(Unwrap(xobject_ref))
        x == Unwrap(xobject)
    IN IF IsNone(xobject_ref) THEN Ret(rs, be, Err("NotFound"))
       ELSE IF IsNone(xobject) THEN Ret(rs, be, Err("resolve"))
       ELSE CASE x.kind = "Image" ->
                   Ret(rs, backend_call(be, [call |-> "draw_image", xref |-> Unwrap(xobject_ref),
                                             transform |-> rs.graphics_state.transform,
                                             mode |-> blend_mode_fill(rs),
                                             clip |-> rs.graphics_state.clip_path_id]), Ok)
              [] x.kind = "Form" -> draw_form(rs, be, x, depth)
              [] OTHER -> Ret(rs, backend_call(be, [call |-> "bug_postscript"]), Ok)
draw_op(rs, be0, op, op_nr, depth) ==
    LET be == bug_op(be0, op_nr)
    IN CASE op.kind = "Close" -> OpClose(rs, be)
         [] op.kind = "MoveTo" -> OpMoveTo(rs, be, op.arg)
         [] op.kind = "LineTo" -> OpLineTo(rs, be, op.arg)
         [] op.kind = "Rect" -> OpRect(rs, be, op.arg)
         [] op.kind = "EndPath" -> OpEndPath(rs, be)
         [] op.kind = "Stroke" -> OpStroke(rs, be)
         [] op.kind = "FillAndStroke" -> OpFillAndStroke(rs, be, op.arg)
         [] op.kind = "Fill" -> OpFill(rs, be, op.arg)
         [] op.kind = "Clip" -> OpClip(rs, be, op.arg)
         [] op.kind = "Save" -> OpSave(rs, be)
         [] op.kind = "Restore" -> OpRestore(rs, be)
         [] op.kind = "Transform" -> OpTransform(rs, be, op.arg)
         [] op.kind = "LineWidth" -> OpLineWidth(rs, be, op.arg)
         [] op.kind = "Dash" -> OpDash(rs, be, op.arg[1], op.arg[2])
         [] op.kind = "GraphicsState" -> OpGraphicsState(rs, be, op.arg)
         [] op.kind = "StrokeColor" -> OpStrokeColor(rs, be, op.arg)
         [] op.kind = "FillColor" -> OpFillColor(rs, be, op.arg)
         [] op.kind = "FillColorSpace" -> OpFillColorSpace(rs, be, op.arg)
         [] op.kind = "StrokeColorSpace" -> OpStrokeColorSpace(rs, be, op.arg)
         [] op.kind = "BeginText" -> OpBeginText(rs, be)
         [] op.kind = "CharSpacing" -> OpCharSpacing(rs, be, op.arg)
         [] op.kind = "WordSpacing" -> OpWordSpacing(rs, be, op.arg)
         [] op.kind = "TextScaling" -> OpTextScaling(rs, be, op.arg)
         [] op.kind = "Leading" -> OpLeading(rs, be, op.arg)
         [] op.kind = "TextFont" -> OpTextFont(rs, be, op.arg[1], op.arg[2])
         [] op.kind = "TextRenderMode" -> OpTextRenderMode(rs, be, op.arg)
         [] op.kind = "TextRise" -> OpTextRise(rs, be, op.arg)
         [] op.kind = "MoveTextPosition" -> OpMoveTextPosition(rs, be, op.arg)
         [] op.kind = "SetTextMatrix" -> OpSetTextMatrix(rs, be, op.arg)
         [] op.kind = "TextNewline" -> OpTextNewline(rs, be)
         [] op.kind = "TextDraw" -> OpTextDraw(rs, be, op.arg, op_nr)
         [] op.kind = "TextDrawAdjusted" -> OpTextDrawAdjusted(rs, be, op.arg, op_nr)
         [] op.kind = "XObject" -> OpXObject(rs, be, op.arg, depth)
         [] op.kind = "InlineImage" -> OpInlineImage(rs, be, op.arg)
         [] OTHER -> OpNoEffect(rs, be)

\* ------------------------------------------------------------------------
\* State
\* ------------------------------------------------------------------------
VARIABLES
    renderstate,  \* the page's RenderState (render_page's local)
    backend,      \* the Backend render_page was handed
    op_nr,        \* index i of render_page's loop over the page's operators
    last,         \* history: the operator handed to draw_op last, its index, what
                  \* it returned, whether it changed the graphics or text state,
                  \* and the clip id that was current when it started
    status,       \* "running", "done" (Ok), "failed" (Err), "aborted" (process died)
    saved,        \* history: the (graphics, text) states as they were before
                  \* each Save that has not been matched by a Restore
    call          \* a function of the library called on its own, outside
                  \* render_page: its name, its arguments and what it returned

vars == <<renderstate, backend, op_nr, last, status, saved, call>>

PageResources == "page"
RootTransformation == Transform2F_default
\* Resolve::options()
ParseOptions(allow_error_in_option) == [allow_error_in_option |-> allow_error_in_option]

\* no function has been called on its own
NoCall == [fn |-> "none", args |-> <<>>, out |-> <<>>]
\* render_page up to its loop: a fresh RenderState over the page's resources
InitWith(kinds, options) ==
    /\ renderstate \in {RenderState_new(ParseOptions(o), PageResources, RootTransformation) :
                          o \in options}
    /\ backend \in {Backend_new(k) : k \in kinds}
    /\ op_nr = 0
    /\ last = [op |-> Op("None", NoArg), res |-> Ok, nr |-> 0, changed |-> FALSE, clip |-> None]
    /\ status = "running"
    /\ saved = <<>>
    /\ call = NoCall

\* (mutant) an error of draw_op is logged and the loop goes on
loop_status_lenient(res) ==
    CASE res.tag \in {"Ok", "Err"} -> "running"
      [] OTHER -> "aborted"
\* render_page: what the loop does with the result of draw_op (`?`)
loop_status(res) ==
    CASE res.tag = "Ok" -> "running"
      [] res.tag = "Err" -> "failed"
      [] OTHER -> "aborted"
\* render_page: one turn of the loop over the page's operators
Exec(op) ==
    /\ status = "running"
    /\ \E r \in {draw_op(renderstate, backend, op, op_nr, 0)} :
          /\ renderstate' = r.rs
          /\ backend' = r.be
          /\ last' = [op |-> op, res |-> r.res, nr |-> op_nr,
                       changed |-> r.rs.graphics_state # renderstate.graphics_state
                                   \/ r.rs.text_state # renderstate.text_state,
                       clip |-> renderstate.graphics_state.clip_path_id]
          /\ status' = loop_status(r.res)
          /\ op_nr' = IF IsOk(r.res) THEN op_nr + 1 ELSE op_nr
          /\ saved' = CASE op.kind = "Save" /\ IsOk(r.res) ->
                             Append(saved, <<renderstate.graphics_state, renderstate.text_state>>)
                        [] op.kind = "Restore" /\ IsOk(r.res) /\ Len(saved) > 0 ->
                             SubSeq(saved, 1, Len(saved) - 1)
                        [] OTHER -> saved
          /\ UNCHANGED call
\* render_page: the operators are exhausted, Ok(root_transformation)
Finish ==
    /\ status = "running"
    /\ status' = "done"
    /\ UNCHANGED <<renderstate, backend, op_nr, last, saved, call>>

\* a step of render_page's loop (every such step changes last)
IsExec == last' # last

\* ------------------------------------------------------------------------
\* Specification of the graphics-state stack: pages over Save, Restore and
\* operators that change the graphics state, the text state and the path
\* ------------------------------------------------------------------------
MaxStackOps == 4
InitStack == InitWith({"tracer"}, {FALSE})
NextStack ==
    \/ op_nr < MaxStackOps /\ Exec(Op("Save", NoArg))
    \/ op_nr < MaxStackOps /\ Exec(Op("Restore", NoArg))
    \/ op_nr < MaxStackOps /\ Exec(Op("Transform", Matrix(10, 0, 0, 10, 0, 0)))
    \/ op_nr < MaxStackOps /\ Exec(Op("LineWidth", 3))
    \/ op_nr < MaxStackOps /\ Exec(Op("FillColor", Gray(1)))
    \/ op_nr < MaxStackOps /\ Exec(Op("GraphicsState", "GS1"))
    \/ op_nr < MaxStackOps /\ Exec(Op("TextFont", <<"F1", 12>>))
    \/ op_nr < MaxStackOps /\ Exec(Op("CharSpacing", 2))
    \/ op_nr < MaxStackOps /\ Exec(Op("MoveTextPosition", <<1, 0>>))
    \/ op_nr < MaxStackOps /\ Exec(Op("Rect", Rect(0, 0, 1, 1)))
    \/ op_nr < MaxStackOps /\ Exec(Op("Clip", "NonZero"))
    \/ op_nr < MaxStackOps /\ Exec(Op("Stroke", NoArg))
    \/ Finish
SpecStack == InitStack /\ [][NextStack]_vars

\* C1: a Restore that succeeds leaves every field of the graphics state and
\* of the text state equal to its value just before the matching Save
C1_SaveRestoreRoundTrip ==
    [][(IsExec /\ last'.op.kind = "Restore" /\ IsOk(last'.res))
         => /\ Len(saved) > 0
            /\ renderstate'.graphics_state = saved[Len(saved)][1]
            /\ renderstate'.text_state = saved[Len(saved)][2]]_vars
\* a Restore succeeded and changed the state back
C1_Witness == last.op.kind = "Restore" /\ IsOk(last.res) /\ last.changed

\* C2: Restore on an empty stack makes draw_op return an error and leaves
\* graphics state, text state, stack and current path unchanged
C2_RestoreEmptyStack ==
    [][(IsExec /\ last'.op.kind = "Restore" /\ Len(renderstate.stack) = 0)
         => /\ last'.res.tag = "Err"
            /\ last'.res.msg = "graphcs stack is empty"
            /\ renderstate' = renderstate]_vars
\* a Restore was refused with a path under construction and a changed state
C2_Witness ==
    /\ last.op.kind = "Restore" /\ last.res.tag = "Err"
    /\ renderstate.current_outline # Outline_new
    /\ renderstate.graphics_state # GraphicsState_new(RootTransformation)

\* ------------------------------------------------------------------------
\* Specification of clipping: the prefixes of pages that build paths and
\* clip to them
\* ------------------------------------------------------------------------
MaxClipOps == 6
ClipRects == {Rect(0, 0, 2, 2), Rect(1, 1, 2, 2)}
ClipPoints == {<<0, 0>>, <<3, 0>>, <<0, 3>>}
Windings == {"NonZero", "EvenOdd"}
InitClip == InitWith({"scene", "vello"}, {FALSE})
NextClip ==
    \/ op_nr < MaxClipOps /\ Exec(Op("MoveTo", <<0, 0>>))
    \/ \E p \in ClipPoints : op_nr < MaxClipOps /\ Exec(Op("LineTo", p))
    \/ \E r \in ClipRects : op_nr < MaxClipOps /\ Exec(Op("Rect", r))
    \/ op_nr < MaxClipOps /\ Exec(Op("EndPath", NoArg))
    \/ \E w \in Windings : op_nr < MaxClipOps /\ Exec(Op("Clip", w))
    \/ op_nr < MaxClipOps /\ Exec(Op("Transform", Matrix(1, 0, 0, 1, 1, 0)))
SpecClip == InitClip /\ [][NextClip]_vars

\* the region painting is limited to when the backend is handed clip id
EffectiveClip(be, id) == IF IsSome(id) THEN ClipRegion(be, Unwrap(id)) ELSE Cells
\* the region of the path a Clip operator is applied to
ClipPathRegion(rs, winding) ==
    Region(transformed(flush(rs).current_outline, rs.graphics_state.transform),
           cvt_winding(winding))
\* C3: after a Clip the effective clip region is contained in the
\* intersection of the previous effective region and the region of the new
\* path
C3_ClipMonotone ==
    [][(IsExec /\ last'.op.kind = "Clip" /\ IsOk(last'.res))
         => EffectiveClip(backend', renderstate'.graphics_state.clip_path_id)
              \subseteq (EffectiveClip(backend, renderstate.graphics_state.clip_path_id)
                           \cap ClipPathRegion(renderstate, last'.op.arg))]_vars

\* ------------------------------------------------------------------------
\* Specification of paths: pages that build paths, change the transform,
\* clip and paint
\* ------------------------------------------------------------------------
MaxPathOps == 5
PathMatrices == {Matrix(1, 0, 0, 1, 1, 0), Matrix(2, 0, 0, 2, 0, 0)}
InitPath == InitWith({"scene"}, {FALSE})
NextPath ==
    \/ op_nr < MaxPathOps /\ Exec(Op("MoveTo", <<1, 0>>))
    \/ \E p \in {<<1, 1>>, <<0, 1>>} : op_nr < MaxPathOps /\ Exec(Op("LineTo", p))
    \/ op_nr < MaxPathOps /\ Exec(Op("Rect", Rect(0, 0, 2, 2)))
    \/ op_nr < MaxPathOps /\ Exec(Op("Close", NoArg))
    \/ op_nr < MaxPathOps /\ Exec(Op("EndPath", NoArg))
    \/ op_nr < MaxPathOps /\ Exec(Op("Stroke", NoArg))
    \/ op_nr < MaxPathOps /\ Exec(Op("Fill", "NonZero"))
    \/ op_nr < MaxPathOps /\ Exec(Op("FillAndStroke", "EvenOdd"))
    \/ op_nr < MaxPathOps /\ Exec(Op("Clip", "NonZero"))
    \/ \E m \in PathMatrices : op_nr < MaxPathOps /\ Exec(Op("Transform", m))
    \/ Finish
SpecPath == InitPath /\ [][NextPath]_vars

Painters == {"Stroke", "Fill", "FillAndStroke"}
\* the contours of the path under construction, as sequences of points: those
\* of the outline, then the contour in progress
PathContours(rs) ==
    [i \in 1..Len(rs.current_outline.contours) |-> rs.current_outline.contours[i].points]
      \o (IF Len(rs.current_contour.points) = 0 THEN <<>> ELSE <<rs.current_contour.points>>)
RECURSIVE Flatten(_)
Flatten(ss) == IF Len(ss) = 0 THEN <<>> ELSE ss[1] \o Flatten(Tail(ss))
\* the points of a path in construction order, placed by a transform
PlacedBy(t, contours) ==
    LET ps == Flatten(contours) IN [i \in 1..Len(ps) |-> TApply(t, ps[i])]
\* where the points of the path under construction would be painted
Placed(rs) == PlacedBy(rs.graphics_state.transform, PathContours(rs))
\* the call the backend received last in the step
LastCall == backend'.calls[Len(backend'.calls)]

\* C12: each path point is placed with the transform that was current when
\* it was appended: a point is appended at transform . p, a Transform leaves
\* the points already appended where they are, and a painting operator
\* paints the points where they were placed (MoveTo(p); Transform(T);
\* LineTo(q) paints from M.p to M.T.q)
C12_TransformComposition ==
    [][(IsExec /\ IsOk(last'.res))
         => /\ last'.op.kind \in {"MoveTo", "LineTo"}
                 => Placed(renderstate')
                      = Append(Placed(renderstate),
                               TApply(renderstate.graphics_state.transform, last'.op.arg))
            /\ last'.op.kind = "Transform" => Placed(renderstate') = Placed(renderstate)
            /\ last'.op.kind \in Painters
                 => /\ LastCall.call = "draw"
                    /\ PlacedBy(LastCall.transform,
                                [i \in 1..Len(LastCall.outline.contours) |->
                                   LastCall.outline.contours[i].points])
                         = Placed(renderstate)]_vars

\* C13: the draw call of a painting operator that follows a Clip receives
\* the clip id that was current before the Clip, and the clip the Clip
\* created is the current clip after the painting operator
C13_ClipAfterPaint ==
    [][(IsExec /\ last.op.kind = "Clip" /\ IsOk(last.res)
               /\ last'.op.kind \in Painters /\ IsOk(last'.res))
         => /\ LastCall.call = "draw"
            /\ LastCall.clip = last.clip
            /\ renderstate'.graphics_state.clip_path_id
                 = renderstate.graphics_state.clip_path_id]_vars

\* C14: MoveTo and Rect add a contour after those built so far, the contour
\* in progress included; LineTo adds a point after those built so far; a
\* painting operator hands the backend every contour built since the last
\* painting or EndPath operator, in construction order; after a painting
\* operator and after EndPath the outline and the contour in progress are
\* empty
C14_FlushingDiscipline ==
    [][(IsExec /\ IsOk(last'.res))
         => /\ last'.op.kind = "MoveTo"
                 => PathContours(renderstate')
                      = Append(PathContours(renderstate), <<last'.op.arg>>)
            /\ last'.op.kind = "Rect"
                 => PathContours(renderstate')
                      = Append(PathContours(renderstate),
                               Contour_from_rect(cvt_rect(last'.op.arg)).points)
            /\ last'.op.kind = "LineTo"
                 => /\ Flatten(PathContours(renderstate'))
                         = Append(Flatten(PathContours(renderstate)), last'.op.arg)
                    /\ Len(PathContours(renderstate')) >= Len(PathContours(renderstate))
            /\ last'.op.kind \in {"Close", "Transform", "Clip"}
                 => PathContours(renderstate') = PathContours(renderstate)
            /\ last'.op.kind \in Painters
                 => /\ Len(backend'.calls) = Len(backend.calls) + 1
                    /\ LastCall.call = "draw"
                    /\ [i \in 1..Len(LastCall.outline.contours) |->
                          LastCall.outline.contours[i].points]
                         = PathContours(renderstate)
            /\ last'.op.kind \in Painters \cup {"EndPath"}
                 => /\ renderstate'.current_outline.contours = <<>>
                    /\ renderstate'.current_contour.points = <<>>]_vars
\* a painting operator drew two contours, the first one flushed into the
\* outline by the Rect or MoveTo that began the second
C14_Witness ==
    /\ last.op.kind \in Painters /\ IsOk(last.res)
    /\ Len(backend.calls) >= 1
    /\ backend.calls[Len(backend.calls)].call = "draw"
    /\ Len(backend.calls[Len(backend.calls)].outline.contours) = 2
    /\ Len(backend.calls[Len(backend.calls)].outline.contours[1].points) = 2
    /\ renderstate.current_outline.contours = <<>>
    /\ renderstate.current_contour.points = <<>>

\* ------------------------------------------------------------------------
\* Specification of XObjects and resources: pages that invoke images and
\* forms, name ExtGStates and fonts, and change the state around them
\* ------------------------------------------------------------------------
MaxFormOps == 3
FormNames == {"Im1", "Fm1", "FmLeaf", "FmSelf", "FmA", "FmErr", "FmMiss", "FmBadOps",
              "FmRes", "Ps1", "XDangling", "Nope"}
InitForm == InitWith({"tracer"}, BOOLEAN)
NextForm ==
    \/ \E n \in FormNames : op_nr < MaxFormOps /\ Exec(Op("XObject", n))
    \/ \E n \in {"GS1", "GSx"} : op_nr < MaxFormOps /\ Exec(Op("GraphicsState", n))
    \/ \E n \in {"F1", "Fx"} : op_nr < MaxFormOps /\ Exec(Op("TextFont", <<n, 12>>))
    \/ op_nr < MaxFormOps /\ Exec(Op("Save", NoArg))
    \/ op_nr < MaxFormOps /\ Exec(Op("Restore", NoArg))
    \/ op_nr < MaxFormOps /\ Exec(Op("Transform", Matrix(1, 0, 0, 1, 1, 0)))
    \/ op_nr < MaxFormOps /\ Exec(Op("Rect", Rect(0, 0, 1, 1)))
    \/ op_nr < MaxFormOps /\ Exec(Op("Stroke", NoArg))
    \/ Finish
SpecForm == InitForm /\ [][NextForm]_vars

\* C4: after an XObject operator on a form returns Ok, the caller's graphics
\* state, text state, stack and current path are what they were before it
C4_FormIsolation ==
    [][(IsExec /\ last'.op.kind = "XObject" /\ IsOk(last'.res)) => renderstate' = renderstate]_vars
\* a form that saves, transforms, clips and paints has returned Ok to a
\* caller that has a path under construction
C4_Witness ==
    /\ last.op = Op("XObject", "Fm1") /\ IsOk(last.res)
    /\ renderstate.current_outline # Outline_new
    /\ Len(backend.clip_paths) > 0

\* C5: once draw_op has returned Err, render_page has failed with that
\* error, no later operator is executed and the backend receives no further
\* call; a form stops at its first failing operator too
C5_ErrorsAreFatal ==
    [][/\ last.res.tag = "Err"
          => (status = "failed" /\ status' = "failed" /\ last' = last /\ op_nr' = op_nr
                /\ backend' = backend /\ renderstate' = renderstate)
       /\ (IsExec /\ last'.op = Op("XObject", "FmErr"))
          => (/\ last'.res = Err("graphcs stack is empty")
              /\ Len(backend'.calls) = Len(backend.calls) + 1
              /\ backend'.op_nr = 2)]_vars
\* a page has failed after its backend received calls
C5_Witness == status = "failed" /\ op_nr > 0 /\ Len(backend.calls) > 0

\* C6: render_page ends in Ok or in an error; no operator sets off a
\* recursion that has no end
C6_Terminates == last.res.tag # "Overflow" /\ status # "aborted"

\* an operator that names a resource absent from the resources
MissingName(rs, op) ==
    \/ op.kind = "TextFont" /\ op.arg[1] \notin DOMAIN ResourcesOf(rs.resources).fonts
    \/ op.kind = "GraphicsState" /\ op.arg \notin DOMAIN ResourcesOf(rs.resources).graphics_states
    \/ op.kind = "XObject" /\ op.arg \notin DOMAIN ResourcesOf(rs.resources).xobjects
MaxTextOps == 3
TextFontNames == {"F1", "F2", "FBad", "FStream", "FNoName", "FStd", "FStdGone", "FAnon",
                  "FToUni", "Fx"}
TextStrings == {<<1>>, <<32>>, <<1, 32, 2>>, <<0, 1, 0>>}
TextArrays == {<<TextItem(<<1>>), SpacingItem(0 - 100), TextItem(<<2, 1>>)>>,
               <<TextItem(<<1>>), SpacingItem(50), TextItem(<<1>>)>>,
               <<SpacingItem(200)>>}
InitText == InitWith({"tracer"}, {FALSE})
NextText ==
    \/ \E n \in TextFontNames : op_nr < MaxTextOps /\ Exec(Op("TextFont", <<n, 12>>))
    \/ \E n \in {"GSFont", "GSBadFont", "GSNoRef"} : op_nr < MaxTextOps /\ Exec(Op("GraphicsState", n))
    \/ \E t \in TextStrings : op_nr < MaxTextOps /\ Exec(Op("TextDraw", t))
    \/ \E a \in TextArrays : op_nr < MaxTextOps /\ Exec(Op("TextDrawAdjusted", a))
    \/ op_nr < MaxTextOps /\ Exec(Op("CharSpacing", 1))
    \/ op_nr < MaxTextOps /\ Exec(Op("WordSpacing", 2))
    \/ op_nr < MaxTextOps /\ Exec(Op("TextScaling", 50))
    \/ op_nr < MaxTextOps /\ Exec(Op("TextRenderMode", "Invisible"))
    \/ op_nr < MaxTextOps /\ Exec(Op("BeginText", NoArg))
    \/ op_nr < MaxTextOps /\ Exec(Op("MoveTextPosition", <<1, 2>>))
    \/ Finish
SpecText == InitText /\ [][NextText]_vars

\* the font an operator refers to, if it names one that exists: through the
\* font resources (TextFont) or through the /Font entry of an ExtGState
FontOfOp(rs, op) ==
    CASE op.kind = "TextFont" -> map_get(ResourcesOf(rs.resources).fonts, op.arg[1])
      [] op.kind = "GraphicsState"
           /\ op.arg \in DOMAIN ResourcesOf(rs.resources).graphics_states
           /\ IsSome(ResourcesOf(rs.resources).graphics_states[op.arg].font) ->
              resolve_font(ResourcesOf(rs.resources).graphics_states[op.arg].font[1][1])
      [] OTHER -> None
\* the font program does not parse, or no FontEntry can be built for it
FontFails(key) ==
    \/ FontObject(key).embedded = "Garbage"
    \/ FontObject(key).embedded = "Ok" /\ ~FontEntry_build_ok(key)
\* C8: an operator that selects a font whose program does not parse or whose
\* FontEntry cannot be built succeeds, leaves the text state without a
\* font, and the page goes on
C8_FontFailuresLocal ==
    [][(IsExec /\ IsSome(FontOfOp(renderstate, last'.op))
              /\ FontFails(Unwrap(FontOfOp(renderstate, last'.op))))
         => /\ IsOk(last'.res)
            /\ renderstate'.text_state.font_entry = None
            /\ status' = "running"]_vars

\* the number of bytes of the strings a text operator shows
RECURSIVE ArrayBytes(_)
ArrayBytes(array) ==
    IF Len(array) = 0 THEN 0
    ELSE (IF array[1].t = "Text" THEN Len(array[1].data) ELSE 0) + ArrayBytes(Tail(array))
OpBytes(op) == IF op.kind = "TextDraw" THEN Len(op.arg) ELSE ArrayBytes(op.arg)
\* the calls the backend received during the last step
NewCalls == SubSeq(backend'.calls, Len(backend.calls) + 1, Len(backend'.calls))
\* C10: a TextDraw or TextDrawAdjusted operator makes exactly one add_text
\* call, after all its draw_glyph calls and before the next operator; the
\* span carries the operator's index and the text and width of this operator
\* alone
C10_OneSpanPerTextOp ==
    [][(IsExec /\ last'.op.kind \in {"TextDraw", "TextDrawAdjusted"})
         => /\ IsOk(last'.res)
            /\ Len(NewCalls) >= 1
            /\ \A i \in 1..(Len(NewCalls) - 1) :
                  NewCalls[i].call = "draw_glyph" /\ NewCalls[i].op_nr = op_nr
            /\ LET a == NewCalls[Len(NewCalls)]
               IN /\ a.call = "add_text"
                  /\ a.span.op_nr = op_nr
                  /\ a.span.width = renderstate'.text_state.text_matrix.m13
                                      - renderstate.text_state.text_matrix.m13
                  /\ Len(a.span.chars) <= Len(a.span.text)
                  /\ Len(a.span.text) <= OpBytes(last'.op)
                  /\ Len(NewCalls) - 1 <= OpBytes(last'.op)
                  /\ \A k \in 1..Len(a.span.chars) : a.span.chars[k].offset < Len(a.span.text)
                  /\ IsNone(renderstate.text_state.font_entry)
                       => (a.span.text = <<>> /\ Len(NewCalls) = 1)]_vars
\* a second text operator has drawn glyphs and handed over its own span
C10_Witness ==
    /\ last.op.kind = "TextDrawAdjusted" /\ IsOk(last.res)
    /\ Len(backend.calls) >= 4
    /\ backend.calls[Len(backend.calls)].call = "add_text"
    /\ backend.calls[Len(backend.calls)].span.op_nr = 2
    /\ Len(backend.calls[Len(backend.calls)].span.text) = 2
    /\ backend.calls[Len(backend.calls) - 1].call = "draw_glyph"
    /\ \E i \in 1..(Len(backend.calls) - 1) : backend.calls[i].call = "add_text"

\* the sum of the widths of the TextChar entries of a span
RECURSIVE CharsWidth(_)
CharsWidth(chars) ==
    IF Len(chars) = 0 THEN 0 ELSE chars[1].width + CharsWidth(Tail(chars))
\* the advance of one space under a text state with the font key selected
SpaceAdvance(rs, key) ==
    draw_text_glyph([ts |-> rs.text_state, be |-> Backend_new("tracer"), span |-> Span_default],
                    rs.graphics_state, key, 32).span.width
\* the advances of the spaces of a span: a space is the only glyph that adds
\* to the text of a span without adding a TextChar
SpaceAdvances(rs, span) ==
    IF IsNone(rs.text_state.font_entry) THEN 0
    ELSE (Len(span.text) - Len(span.chars)) * SpaceAdvance(rs, Unwrap(rs.text_state.font_entry))
\* C11: the width of every span handed to the backend is the sum of the
\* widths of its TextChar entries plus the advances of its spaces
C11_SpanWidthIsSum ==
    [][(IsExec /\ last'.op.kind \in {"TextDraw", "TextDrawAdjusted"} /\ IsOk(last'.res))
         => LET a == NewCalls[Len(NewCalls)]
            IN a.span.width = CharsWidth(a.span.chars) + SpaceAdvances(renderstate, a.span)]_vars

\* the width of char-id cid under the text state ts with the font key
\* selected: from the widths of the pdf font, else the advance of the glyph
GlyphWidth(ts, key, cid) ==
    LET e == FontEntryOf(key)
        g == glyph_of(e, cid)
        glyph == font_glyph(key, IF IsSome(g.gid) THEN Unwrap(g.gid) ELSE 0)
    IN IF IsSome(e.widths)
       THEN widths_get(Unwrap(e.widths), cid) * ts.horiz_scale * ts.font_size
       ELSE IF IsSome(glyph) THEN ts.horiz_scale * ts.font_size * Unwrap(glyph).advance
       ELSE 0
\* the text state selects a font that is not a CID font and maps cid to " "
IsSpaceOf(ts, cid) ==
    /\ IsSome(ts.font_entry)
    /\ ~FontEntryOf(Unwrap(ts.font_entry)).is_cid
    /\ glyph_of(FontEntryOf(Unwrap(ts.font_entry)), cid).unicode = Some(Space)
\* C23: for a non-CID font a char-id whose Unicode fragment is " " advances
\* the text matrix and the span width by
\* (char_space + word_space) * horiz_scale + width, appends a space to the
\* span text and causes no draw_glyph call
C23_SpaceAdvance ==
    [][(/\ IsExec
        /\ last'.op = Op("TextDraw", <<32>>)
        /\ IsSpaceOf(renderstate.text_state, 32))
         => LET ts == renderstate.text_state
                advance == (ts.char_space + ts.word_space) * ts.horiz_scale * 1000
                           + GlyphWidth(ts, Unwrap(ts.font_entry), 32)
                a == NewCalls[Len(NewCalls)]
            IN /\ IsOk(last'.res)
               /\ renderstate'.text_state.text_matrix
                    = TMul(ts.text_matrix, from_translation(<<advance, 0>>))
               /\ Len(NewCalls) = 1
               /\ a.call = "add_text"
               /\ a.span.width = advance
               /\ a.span.text = <<Space>>]_vars

\* the draw_glyph calls among the calls of the step
NewGlyphs == SelectSeq(NewCalls, LAMBDA c : c.call = "draw_glyph")
\* the amount a spacing offset o moves the text position by
SpacingAmount(ts, o) == (0 - o) * ts.font_size * ts.horiz_scale
\* the advance of the glyph of char-id cid that is not a space
GlyphAdvance(ts, cid) ==
    IF IsNone(ts.font_entry) THEN 0
    ELSE ts.char_space * ts.horiz_scale * 1000 + GlyphWidth(ts, Unwrap(ts.font_entry), cid)
\* C24: a numeric offset o of a TextDrawAdjusted array advances the text
\* matrix by -0.001 * o * font_size * horiz_scale without a draw_glyph call
\* and adds the same amount to the width of the span; the glyph after the
\* offset lies the advance of the glyph before it plus this amount further
\* (the glyphs are those of a font with one byte per char-id)
C24_AdjustedSpacing ==
    [][(IsExec /\ last'.op.kind = "TextDrawAdjusted")
         => LET ts == renderstate.text_state
                array == last'.op.arg
                a == NewCalls[Len(NewCalls)]
            IN /\ IsOk(last'.res)
               /\ a.call = "add_text"
               /\ array = <<SpacingItem(200)>>
                    => /\ renderstate'.text_state.text_matrix
                            = TMul(ts.text_matrix,
                                   from_translation(<<SpacingAmount(ts, 200), 0>>))
                       /\ a.span.width = SpacingAmount(ts, 200)
                       /\ Len(NewGlyphs) = 0
               /\ (/\ array = <<TextItem(<<1>>), SpacingItem(50), TextItem(<<1>>)>>
                   /\ (IsNone(ts.font_entry) \/ ~FontEntryOf(Unwrap(ts.font_entry)).is_cid))
                    => /\ renderstate'.text_state.text_matrix
                            = TMul(ts.text_matrix,
                                   from_translation(<<2 * GlyphAdvance(ts, 1)
                                                        + SpacingAmount(ts, 50), 0>>))
                       /\ a.span.width = 2 * GlyphAdvance(ts, 1) + SpacingAmount(ts, 50)
                       /\ Len(NewGlyphs) \in {0, 2}
                       /\ Len(NewGlyphs) = 2
                            => NewGlyphs[2].transform[2]
                                 = TMul(NewGlyphs[1].transform[2],
                                        from_translation(<<GlyphAdvance(ts, 1)
                                                             + SpacingAmount(ts, 50), 0>>))]_vars
\* a glyph, an offset of 50 and a glyph have been shown with a font selected
C24_Witness ==
    /\ last.op = Op("TextDrawAdjusted", <<TextItem(<<1>>), SpacingItem(50), TextItem(<<1>>)>>)
    /\ IsOk(last.res)
    /\ IsSome(renderstate.text_state.font_entry)
    /\ ~FontEntryOf(Unwrap(renderstate.text_state.font_entry)).is_cid
    /\ renderstate.text_state.font_size # 0
    /\ Len(backend.calls) >= 3
    /\ backend.calls[Len(backend.calls) - 1].call = "draw_glyph"
    /\ backend.calls[Len(backend.calls) - 2].call = "draw_glyph"
    /\ backend.calls[Len(backend.calls)].span.width # 0

\* TextSpan::parts and TextSpan::rparts (lib.rs): the windows over the chars
\* of the span followed by an end marker
Part(text, pos, width, offset) == [text |-> text, pos |-> pos, width |-> width, offset |-> offset]
span_marks(span) ==
    Append(span.chars, [offset |-> Len(span.text), pos |-> span.width, width |-> 0])
span_parts(span) ==
    LET ms == span_marks(span)
    IN [i \in 1..(Len(ms) - 1) |->
          Part(SubSeq(span.text, ms[i].offset + 1, ms[i + 1].offset), ms[i].pos, ms[i].width,
               ms[i].offset)]
span_rparts(span) ==
    LET ms == span_marks(span)
        rev == [i \in 1..Len(ms) |-> ms[Len(ms) + 1 - i]]
    IN [i \in 1..(Len(rev) - 1) |->
          Part(SubSeq(span.text, rev[i + 1].offset + 1, rev[i].offset), rev[i + 1].pos,
               rev[i + 1].width, rev[i + 1].offset)]
\* C37: the texts of the parts of a span, in order, make up the text of the
\* span, and rparts yields the parts in reverse order
C37_PartsCoverText ==
    \A k \in 1..Len(backend.calls) :
        backend.calls[k].call = "add_text"
          => LET span == backend.calls[k].span
                 ps == span_parts(span)
                 rs == span_rparts(span)
             IN /\ Flatten([i \in 1..Len(ps) |-> ps[i].text]) = span.text
                /\ Len(rs) = Len(ps)
                /\ \A i \in 1..Len(ps) : rs[i] = ps[Len(ps) + 1 - i]

\* ------------------------------------------------------------------------
\* Specification of text positioning: pages that show text and move the
\* text position
\* ------------------------------------------------------------------------
MaxMatrixOps == 4
InitMatrix == InitWith({"tracer"}, {FALSE})
NextMatrix ==
    \/ op_nr < MaxMatrixOps /\ Exec(Op("TextFont", <<"F1", 12>>))
    \/ \E t \in {<<1>>, <<1, 32>>} : op_nr < MaxMatrixOps /\ Exec(Op("TextDraw", t))
    \/ op_nr < MaxMatrixOps
         /\ Exec(Op("TextDrawAdjusted", <<TextItem(<<1>>), SpacingItem(50), TextItem(<<1>>)>>))
    \/ op_nr < MaxMatrixOps /\ Exec(Op("Leading", 3))
    \/ op_nr < MaxMatrixOps /\ Exec(Op("TextNewline", NoArg))
    \/ \E v \in {<<1, 2>>, <<0, 0 - 1>>} : op_nr < MaxMatrixOps /\ Exec(Op("MoveTextPosition", v))
    \/ \E m \in PathMatrices : op_nr < MaxMatrixOps /\ Exec(Op("SetTextMatrix", m))
    \/ op_nr < MaxMatrixOps /\ Exec(Op("BeginText", NoArg))
    \/ Finish
SpecMatrix == InitMatrix /\ [][NextMatrix]_vars

\* both matrices of the text state are m
BothAre(ts, m) == ts.text_matrix = m /\ ts.line_matrix = m
\* C25: TextNewline sets the text and the line matrix to
\* line_matrix * translate(0, -leading), MoveTextPosition(v) to
\* line_matrix * translate(v), SetTextMatrix(m) to m and BeginText to the
\* identity; the text-showing operators change the text matrix only
C25_TextMatrixSemantics ==
    [][IsExec
         => LET ts == renderstate.text_state
                op == last'.op
            IN /\ op.kind = "TextNewline"
                    => BothAre(renderstate'.text_state,
                               TMul(ts.line_matrix,
                                    from_translation(<<0, (0 - ts.leading) * TextUnit>>)))
               /\ op.kind = "MoveTextPosition"
                    => BothAre(renderstate'.text_state,
                               TMul(ts.line_matrix,
                                    from_translation(<<op.arg[1] * TextUnit,
                                                       op.arg[2] * TextUnit>>)))
               /\ op.kind = "SetTextMatrix"
                    => BothAre(renderstate'.text_state, TScale(cvt_matrix(op.arg)))
               /\ op.kind = "BeginText"
                    => BothAre(renderstate'.text_state, Transform2F_default)
               /\ op.kind \in {"TextDraw", "TextDrawAdjusted"}
                    => renderstate'.text_state
                         = [ts EXCEPT !.text_matrix = renderstate'.text_state.text_matrix]]_vars
\* after glyphs have moved the text matrix away from the line matrix, a
\* TextNewline with a leading has set both matrices
C25_Witness ==
    /\ last.op.kind = "TextNewline"
    /\ last.nr = 3
    /\ renderstate.text_state.leading # 0
    /\ renderstate.text_state.text_matrix = renderstate.text_state.line_matrix
    /\ renderstate.text_state.text_matrix.m13 = 0
    /\ renderstate.text_state.text_matrix.m23 # 0
    /\ Len(backend.calls) = 2
    /\ backend.calls[1].call = "draw_glyph"
    /\ backend.calls[2].span.width # 0

\* ------------------------------------------------------------------------
\* Specification of colours: pages that select colour spaces and set colours
\* ------------------------------------------------------------------------
MaxColorOps == 3
ColorSpaceNames == {"DeviceGray", "Pattern", "CsIdx", "CsIdxK", "CsN", "CsNK", "CsSep",
                    "CsIcc", "CsIccAlt", "CsIccIcc", "CsNamed", "CsNamedIcc", "CsNamedNamed",
                    "CsOther", "CsMissing"}
Colors == {Gray(1), Rgb(1, 0, 0), Cmyk(0, 1, 0, 0), Other(<<>>), Other(<<Integer(0)>>),
           Other(<<Integer(1)>>), Other(<<Integer(5)>>), Other(<<Number(1), Number(0)>>),
           Other(<<Number(1), Number(0), Number(0)>>),
           Other(<<Number(0), Number(0), Number(1), Number(0)>>),
           Other(<<Name("P1")>>), Other(<<Name("Px")>>)}
InitColor == InitWith({"tracer"}, BOOLEAN)
NextColor ==
    \/ \E n \in ColorSpaceNames : op_nr < MaxColorOps /\ Exec(Op("FillColorSpace", n))
    \/ \E n \in {"CsIdx", "CsN", "DeviceCMYK"} : op_nr < MaxColorOps /\ Exec(Op("StrokeColorSpace", n))
    \/ \E c \in Colors : op_nr < MaxColorOps /\ Exec(Op("FillColor", c))
    \/ \E c \in {Rgb(1, 0, 0), Other(<<>>), Other(<<Integer(1)>>)} :
          op_nr < MaxColorOps /\ Exec(Op("StrokeColor", c))
    \/ op_nr < MaxColorOps /\ Exec(Op("GraphicsState", "GS1"))
    \/ Finish
SpecColor == InitColor /\ [][NextColor]_vars

\* the conversion of the colour of a FillColor or StrokeColor operator fails
ConversionFails(rs, op) ==
    \/ /\ op.kind = "FillColor"
       /\ convert_color2(rs.graphics_state.fill_color_space, op.arg, rs.resources,
                         blend_mode_fill(rs)).r.tag # "Ok"
    \/ /\ op.kind = "StrokeColor"
       /\ convert_color2(rs.graphics_state.stroke_color_space, op.arg, rs.resources,
                         blend_mode_stroke(rs)).r.tag # "Ok"
\* C9: with allow_error_in_option set, a colour operator whose conversion
\* fails succeeds, sets the colour to Solid(0, 0, 0) and the page goes on
C9_ColorFailuresBlack ==
    [][(IsExec /\ renderstate.resolve.allow_error_in_option
              /\ ConversionFails(renderstate, last'.op))
         => /\ IsOk(last'.res)
            /\ status' = "running"
            /\ last'.op.kind = "FillColor"
                 => renderstate'.graphics_state.fill_color = Solid(0, 0, 0)
            /\ last'.op.kind = "StrokeColor"
                 => renderstate'.graphics_state.stroke_color = Solid(0, 0, 0)]_vars

\* a FillColor operator with the one integer operand i, while the fill colour
\* space is cs
FillsWithIndex(cs, op) ==
    /\ op.kind = "FillColor"
    /\ op.arg.c = "Other"
    /\ Len(op.arg.args) = 1
    /\ op.arg.args[1].t = "Integer"
    /\ cs.cs = "Indexed"
    /\ op.arg.args[1].v \in 0..cs.hival
\* C21: in an Indexed colour space over DeviceRGB with lookup table L, the
\* colour operator selecting index i (0 <= i <= hival) sets the fill to
\* Solid(L[3i]/255, L[3i+1]/255, L[3i+2]/255)
C21_IndexedRGB ==
    [][(/\ IsExec
        /\ FillsWithIndex(renderstate.graphics_state.fill_color_space, last'.op)
        /\ renderstate.graphics_state.fill_color_space.base = DeviceRGB)
         => LET L == renderstate.graphics_state.fill_color_space.lut
                i == last'.op.arg.args[1].v
                fill == renderstate'.graphics_state.fill_color
            IN /\ IsOk(last'.res)
               /\ fill.tag = "Solid"
               /\ 255 * fill.r = L[3 * i + 1]
               /\ 255 * fill.g = L[3 * i + 2]
               /\ 255 * fill.b = L[3 * i + 3]]_vars

\* a FillColor operator with n numeric operands, while the fill colour space
\* is an Icc space whose profile has no alternate
FillsInBareIcc(cs, op, n) ==
    /\ op.kind = "FillColor"
    /\ op.arg.c = "Other"
    /\ Len(op.arg.args) = n
    /\ \A i \in 1..n : as_number_ok(op.arg.args[i])
    /\ cs = Icc(None)
\* C29: in an Icc colour space without an alternate a colour with 1 component
\* is converted as DeviceGray, with 3 as DeviceRGB and with 4 as DeviceCMYK
C29_IccByComponents ==
    [][\A n \in {1, 3, 4} :
        (IsExec /\ FillsInBareIcc(renderstate.graphics_state.fill_color_space, last'.op, n))
          => LET a == last'.op.arg.args
                 fill == renderstate'.graphics_state.fill_color
             IN /\ IsOk(last'.res)
                /\ n = 1 => fill = gray2rgb(num(a[1]))
                /\ n = 3 => fill = Solid(num(a[1]), num(a[2]), num(a[3]))
                /\ n = 4 => fill = cmyk2rgb(num(a[1]), num(a[2]), num(a[3]), num(a[4]),
                                            blend_mode_fill(renderstate))]_vars

\* a FillColor operator while the fill colour space is Named(name) and the
\* resources have a colour space of that name
FillsInNamed(rs, op) ==
    /\ op.kind = "FillColor"
    /\ op.arg.c = "Other"
    /\ rs.graphics_state.fill_color_space.cs = "Named"
    /\ rs.graphics_state.fill_color_space.name \in DOMAIN ResourcesOf(rs.resources).color_spaces
\* the colour space a chain of Named spaces ends in, following at most depth
\* links
RECURSIVE resolve_named(_, _, _)
resolve_named(cs, resources, depth) ==
    IF cs.cs = "Named" /\ depth > 0 /\ cs.name \in DOMAIN ResourcesOf(resources).color_spaces
    THEN resolve_named(ResourcesOf(resources).color_spaces[cs.name], resources, depth - 1)
    ELSE cs
\* C30: in a colour space Named(name) the colour is converted as it would be
\* in resources.color_spaces[name], whatever kind that space is
C30_NamedRecursive ==
    [][(IsExec /\ FillsInNamed(renderstate, last'.op))
         => LET target == resolve_named(renderstate.graphics_state.fill_color_space,
                                        renderstate.resources, 3)
                direct == OpFillColor([renderstate EXCEPT
                                          !.graphics_state.fill_color_space = target],
                                      backend, last'.op.arg)
            IN /\ last'.res = direct.res
               /\ renderstate'.graphics_state.fill_color = direct.rs.graphics_state.fill_color]_vars

\* the colour convert_color hands to set_stroke_color / set_fill_color
ConvertedStroke(rs, color) ==
    convert_color(rs.graphics_state.stroke_color_space, color, rs.resources,
                  rs.resolve.allow_error_in_option, blend_mode_stroke(rs)).r.fill
ConvertedFill(rs, color) ==
    convert_color(rs.graphics_state.fill_color_space, color, rs.resources,
                  rs.resolve.allow_error_in_option, blend_mode_fill(rs)).r.fill
\* C32: after a StrokeColor operator that succeeds the stroke colour is the
\* converted colour, and the cached stroke paint is dropped when the colour
\* changed; the same for FillColor and the fill colour
C32_ColorIsSet ==
    [][(IsExec /\ IsOk(last'.res))
         => LET gs == renderstate.graphics_state
                gs1 == renderstate'.graphics_state
            IN /\ last'.op.kind = "StrokeColor"
                    => /\ gs1.stroke_color = ConvertedStroke(renderstate, last'.op.arg)
                       /\ gs1.stroke_color # gs.stroke_color => gs1.stroke_paint = None
               /\ last'.op.kind = "FillColor"
                    => /\ gs1.fill_color = ConvertedFill(renderstate, last'.op.arg)
                       /\ gs1.fill_color # gs.fill_color => gs1.fill_paint = None]_vars

\* ------------------------------------------------------------------------
\* Specification of FontEntry::build: the function called on one font
\* program and one pdf font object, the way load_font calls it
\* ------------------------------------------------------------------------
\* a call of a library function that has not returned yet
Pending(fn, args) == [fn |-> fn, args |-> args, out |-> <<>>]
InitCall(calls) ==
    /\ renderstate = RenderState_new(ParseOptions(FALSE), PageResources, RootTransformation)
    /\ backend = Backend_new("tracer")
    /\ op_nr = 0
    /\ last = [op |-> Op("None", NoArg), res |-> Ok, nr |-> 0, changed |-> FALSE, clip |-> None]
    /\ status = "running"
    /\ saved = <<>>
    /\ call \in calls
\* the call returns r
Return(r) ==
    /\ call' = [call EXCEPT !.out = <<r>>]
    /\ UNCHANGED <<renderstate, backend, op_nr, last, status, saved>>
Returned(fn) == call.fn = fn /\ call.out # <<>>

\* the font programs: a TrueType font with a platform cmap, a Type1 font, a
\* CFF font and a font of another kind; glyph 0 is .notdef
CodesABSpace == (65 :> 1) @@ (66 :> 2) @@ (32 :> 3)
BuildFonts ==
    {[FontProgram("TrueType", 4, None, CodesABSpace, CodesABSpace, EmptyMap)
        EXCEPT !.cmap = Some(CodesABSpace)],
     [FontProgram("Type1", 4, Some("AdobeStandard"), CodesABSpace, CodesABSpace,
                  ("A" :> 1) @@ ("B" :> 2) @@ ("space" :> 3))
        EXCEPT !.names = (1 :> <<65>>) @@ (2 :> <<66>>) @@ (3 :> <<32>>),
               !.codepoints = CodesABSpace],
     [FontProgram("CFF", 3, None, (1 :> 1) @@ (2 :> 2), (65 :> 1) @@ (66 :> 2), EmptyMap)
        EXCEPT !.unicode_map = (65 :> 1) @@ (66 :> 2),
               !.sid_map = (34 :> 1) @@ (35 :> 2),
               !.codepoint_map = <<0, 1, 2>>],
     FontProgram("Other", 3, None, EmptyMap, EmptyMap, EmptyMap)}
BuildCidMaps == {None, Some(CidIdentity), Some(CidTable(<<1, 2>>)), Some(CidTable(<<1, 7>>))}
BuildEncodings ==
    {None,
     Some(Encoding("WinAnsiEncoding", EmptyMap)),
     Some(Encoding("WinAnsiEncoding", (66 :> "A") @@ (200 :> "nota"))),
     Some(Encoding("IdentityH", EmptyMap))}
BuildToUnicodes ==
    {ToUnicodeNone,
     ToUnicodeMap((65 :> <<88>>) @@ (66 :> <<88>>)),
     ToUnicodeMap((0 :> <<57344>>) @@ (65 :> <<89>>)),
     ToUnicodeErr}
BuildCalls ==
    {Pending("FontEntry::build", <<f, FontDict(FALSE, m, e, u, TRUE, Some("F")), q>>) :
       f \in BuildFonts, m \in BuildCidMaps, e \in BuildEncodings, u \in BuildToUnicodes,
       q \in BOOLEAN}
InitBuild == InitCall(BuildCalls)
NextBuild ==
    \/ /\ call.fn = "FontEntry::build" /\ call.out = <<>>
       /\ Return(FontEntry_build(call.args[1], call.args[2], call.args[3]))
SpecBuild == InitBuild /\ [][NextBuild]_vars

\* the cmap of the entry a call of FontEntry::build returned
BuiltMap == Unwrap(call.out[1].entry).encoding.map
Built == Returned("FontEntry::build") /\ call.out[1].tag = "Ok"
\* C15: in every entry of every cmap FontEntry::build produces the glyph id
\* is below the number of glyphs of the font, and a Unicode fragment that
\* is present is not empty
C15_CmapEntriesValid ==
    Built => \A c \in DOMAIN BuiltMap :
                /\ IsSome(BuiltMap[c].gid) => Unwrap(BuiltMap[c].gid) < call.args[1].num_glyphs
                /\ IsSome(BuiltMap[c].unicode) => Len(Unwrap(BuiltMap[c].unicode)) > 0

C17_ToUnicodePrecedence ==
    (Built /\ ~call.args[3] /\ call.args[2].to_unicode.tag = "Some")
      => \A c \in DOMAIN BuiltMap \cap DOMAIN call.args[2].to_unicode.map :
            BuiltMap[c].unicode = Some(call.args[2].to_unicode.map[c])

\* the glyph id draw_text draws for char-id cid under a built entry: the
\* lookup in the encoding, glyph 0 when it yields none
resolved_gid(entry, cid) ==
    LET gid == CASE entry.encoding.t = "CIDNone" -> Some(cid)
                 [] entry.encoding.t = "CID" ->
                       IF cid \in DOMAIN entry.encoding.map THEN entry.encoding.map[cid].gid
                       ELSE None
                 [] OTHER ->
                       IF cid \in DOMAIN entry.encoding.map THEN entry.encoding.map[cid].gid
                       ELSE None
    IN IF IsSome(gid) THEN Unwrap(gid) ELSE 0
\* C26: with a CidToGidMap of Identity every char-id n below the number of
\* glyphs resolves to glyph id n when text is shown, whether or not the
\* ToUnicode map has an entry for n
C26_IdentityCidToGid ==
    (Built /\ call.args[2].cid_to_gid_map = Some(CidIdentity))
      => \A n \in 0..(call.args[1].num_glyphs - 1) :
            resolved_gid(Unwrap(call.out[1].entry), n) = n

\* the pdf font has neither a CidToGidMap nor the base encoding IdentityH:
\* FontEntry::build takes the single-byte arm
SingleByteArm(pdf) ==
    /\ IsNone(pdf.cid_to_gid_map)
    /\ ~(IsSome(pdf.encoding) /\ Unwrap(pdf.encoding).base = "IdentityH")
\* C27: when the single-byte reconciliation leaves the cmap empty, the entry
\* gets the CID-style encoding and is_cid = TRUE
C27_EmptyCmapFallback ==
    (Built /\ SingleByteArm(call.args[2]))
      => LET entry == Unwrap(call.out[1].entry)
         IN /\ entry.encoding.t = "Cmap" => DOMAIN entry.encoding.map # {}
            /\ entry.encoding.t # "Cmap" => entry.is_cid

\* ------------------------------------------------------------------------
\* Specification of the font caches: get_font called again and again on one
\* cache (TraceCache for the tracer, Cache for the other backends)
\* ------------------------------------------------------------------------
MaxFontCalls == 3
\* call.args: the keys requested so far; call.out: for each request what
\* get_font returned and whether load_font ran
InitCache ==
    /\ renderstate = RenderState_new(ParseOptions(FALSE), PageResources, RootTransformation)
    /\ backend \in {Backend_new(k) : k \in {"tracer", "scene"}}
    /\ op_nr = 0
    /\ last = [op |-> Op("None", NoArg), res |-> Ok, nr |-> 0, changed |-> FALSE, clip |-> None]
    /\ status = "running"
    /\ saved = <<>>
    /\ call = Pending("get_font", <<>>)
GetFont(key) ==
    /\ call.fn = "get_font"
    /\ Len(call.args) < MaxFontCalls
    /\ \E g \in {get_font(backend, key)} :
          /\ backend' = g.be
          /\ call' = [call EXCEPT !.args = Append(@, key),
                                  !.out = Append(@, [r |-> g.r, loaded |-> g.loaded])]
    /\ UNCHANGED <<renderstate, op_nr, last, status, saved>>
NextCache == \E key \in FontKeys : GetFont(key)
SpecCache == InitCache /\ [][NextCache]_vars

\* C18: on one cache the font of a key is loaded at most once, on the first
\* request for the key whatever its outcome, and every later request for the
\* key returns the entry (or the None) of the first one without loading
C18_LoadedOnce ==
    call.fn = "get_font" =>
        \A i, j \in 1..Len(call.args) :
            (i < j /\ call.args[i] = call.args[j]) =>
                /\ ~call.out[j].loaded
                /\ call.out[j].r = LoadOk(call.out[i].r.font)
\* C35: on one TraceCache all get_font calls for one key return equal
\* results
C35_TraceCacheStable ==
    (call.fn = "get_font" /\ backend.kind = "tracer") =>
        \A i, j \in 1..Len(call.args) :
            call.args[i] = call.args[j] => call.out[i].r = call.out[j].r

\* ------------------------------------------------------------------------
\* Images (image.rs): ImageData::new and load_image.  The bytes of the image
\* and the lookup tables are values; of the pixels load_image produces the
\* model keeps their number
\* ------------------------------------------------------------------------
\* an ImageXObject.  data: the decoded stream, None when image_data fails
ImageXObject(width, height, data, cs, smask) ==
    [width |-> width, height |-> height, data |-> data, color_space |-> cs, smask |-> smask]
\* a soft mask.  resolved: Resolve::get finds it; data_len: the length of its
\* decoded stream, None when the stream cannot be decoded
SMask(resolved, width, height, bits_per_component, data_len) ==
    [resolved |-> resolved, width |-> width, height |-> height,
     bits_per_component |-> bits_per_component, data_len |-> data_len]
\* an ICC space without alternate, of n components
IccComponents(n) == [cs |-> "Icc", alternate |-> None, components |-> n]
\* Result<ImageData>
ImgOk(pixels, width, height) ==
    [tag |-> "Ok", msg |-> "", pixels |-> pixels, width |-> width, height |-> height]
ImgErr(m) == [tag |-> "Err", msg |-> m, pixels |-> 0, width |-> 0, height |-> 0]
ImgPanic(m) == [tag |-> "Panic", msg |-> m, pixels |-> 0, width |-> 0, height |-> 0]
\* ImageData::new on len pixels
ImageData_new(len, width, height) ==
    IF width * height # len THEN None ELSE Some(ImgOk(len, width, height))
\* ex(b >> bits*i, bits) for i = 0 .. 8/bits - 1, over all bytes
RECURSIVE unpack(_, _)
unpack(data, bits) ==
    IF Len(data) = 0 THEN <<>>
    ELSE [i \in 1..(8 \div bits) |-> (data[1] \div (2 ^ (bits * (i - 1)))) % (2 ^ bits)]
         \o unpack(Tail(data), bits)
take(s, n) == SubSeq(s, 1, Min(n, Len(s)))
\* the length of the alpha channel expanded from a mask of n bytes
alpha_len(bits_per_component, n) ==
    CASE bits_per_component = 1 -> 8 * n
      [] bits_per_component = 2 -> 4 * n
      [] bits_per_component = 4 -> 2 * n
      [] bits_per_component = 8 -> n
      [] bits_per_component = 12 -> 2 * (n \div 3)
      [] bits_per_component = 16 -> n \div 2
\* resize_alpha: the length of the resized channel, None when the source
\* buffer is shorter than its dimensions say
resize_alpha(len, src_width, src_height, dest_width, dest_height) ==
    IF len < src_width * src_height THEN None ELSE Some(dest_width * dest_height)
\* the alpha part of load_image: tag "Ok" (pixels: length of the channel),
\* "Err" or "Panic"
load_image_alpha(image) ==
    IF IsNone(image.smask) THEN ImgOk(0, 0, 0)
    ELSE LET mask == Unwrap(image.smask)
         IN IF ~mask.resolved THEN ImgErr("smask")
            ELSE IF IsNone(mask.data_len) THEN ImgErr("smask data")
            ELSE IF IsNone(mask.bits_per_component) THEN ImgErr("no bits per component")
            ELSE LET bpc == Unwrap(mask.bits_per_component)
                     n == Unwrap(mask.data_len)
                 IN IF n # (mask.width * mask.height * bpc + 7) \div 8
                    THEN ImgErr("data.len() != (bits + 7) / 8")
                    ELSE IF bpc \notin {1, 2, 4, 8, 12, 16}
                    THEN ImgErr("invalid bits per component")
                    ELSE IF mask.width # image.width \/ mask.height # image.height
                    THEN (IF IsNone(resize_alpha(alpha_len(bpc, n), mask.width, mask.height,
                                                 image.width, image.height))
                          THEN ImgPanic("called Option::unwrap() on a None value")
                          ELSE ImgOk(image.width * image.height, 0, 0))
                    ELSE ImgOk(alpha_len(bpc, n), 0, 0)
\* resolve_cs of load_image
resolve_cs(cs, resources) ==
    CASE cs.cs = "Icc" ->
            IF IsSome(cs.alternate) THEN Some(Unwrap(cs.alternate))
            ELSE IF cs.components = 1 THEN Some(DeviceGray)
            ELSE IF cs.components = 3 THEN Some(DeviceRGB)
            ELSE IF cs.components = 4 THEN Some(DeviceCMYK)
            ELSE None
      [] cs.cs = "Named" -> map_get(ResourcesOf(resources).color_spaces, cs.name)
      [] OTHER -> Some(cs)
\* the lookups of an Indexed image: every index must have k bytes in lookup
indexed_ok(pixel_data, lookup, k) ==
    \A i \in 1..Len(pixel_data) : pixel_data[i] * k + k <= Len(lookup)
\* the arm of data ratios 1, 2, 4 and 8: the number of pixels, an error or a
\* panic
load_image_packed(pixel_data, cs, pixel_count, resources) ==
    IF IsNone(cs) \/ Unwrap(cs).cs = "DeviceGray"
    THEN (IF Len(pixel_data) # pixel_count THEN ImgErr("pixel_data.len() != pixel_count")
          ELSE ImgOk(Len(pixel_data), 0, 0))
    ELSE IF Unwrap(cs).cs = "Indexed"
    THEN LET base == resolve_cs(Unwrap(cs).base, resources)
         IN IF IsSome(base) /\ Unwrap(base).cs = "DeviceRGB"
            THEN (IF indexed_ok(pixel_data, Unwrap(cs).lut, 3) THEN ImgOk(Len(pixel_data), 0, 0)
                  ELSE ImgErr("Bounds"))
            ELSE IF IsSome(base) /\ Unwrap(base).cs = "DeviceCMYK"
            THEN (IF indexed_ok(pixel_data, Unwrap(cs).lut, 4) THEN ImgOk(Len(pixel_data), 0, 0)
                  ELSE ImgErr("Bounds"))
            ELSE ImgErr("Unimplemented: base cs")
    ELSE IF Unwrap(cs).cs = "Separation"
    THEN LET alt == resolve_cs(Unwrap(cs).alt, resources)
         IN IF IsSome(alt) /\ Unwrap(alt).cs = "DeviceRGB"
            THEN (IF IsNone(fn_apply(Unwrap(cs).f, <<0>>, 3)) THEN ImgErr("function")
                  ELSE ImgOk(Len(pixel_data), 0, 0))
            ELSE IF IsSome(alt) /\ Unwrap(alt).cs = "DeviceCMYK"
            THEN (IF IsNone(fn_apply(Unwrap(cs).f, <<0>>, 4)) THEN ImgErr("function")
                  ELSE ImgOk(Len(pixel_data), 0, 0))
            ELSE ImgErr("Unimplemented: alt cs")
    ELSE ImgErr("Unimplemented: cs")
\* load_image
load_image(image, resources, mode) ==
    IF IsNone(image.data) THEN ImgErr("image_data")
    ELSE LET raw_data == Unwrap(image.data)
             pixel_count == image.width * image.height
         IN IF pixel_count = 0
            THEN ImgPanic("attempt to calculate the remainder with a divisor of zero")
            ELSE IF load_image_alpha(image).tag # "Ok" THEN load_image_alpha(image)
            ELSE LET cs == IF IsNone(image.color_space) THEN None
                           ELSE resolve_cs(Unwrap(image.color_space), resources)
                     data_ratio == (Len(raw_data) * 8) \div pixel_count
                     data == CASE data_ratio \in {1, 2, 4} ->
                                     load_image_packed(take(unpack(raw_data, data_ratio),
                                                            pixel_count),
                                                       cs, pixel_count, resources)
                               [] data_ratio = 8 ->
                                     load_image_packed(SubSeq(raw_data, 1, pixel_count), cs,
                                                       pixel_count, resources)
                               [] data_ratio = 24 -> ImgOk(pixel_count, 0, 0)
                               [] data_ratio = 32 -> ImgOk(pixel_count, 0, 0)
                               [] OTHER -> ImgErr("Unimplemented: data/pixel ratio")
                 IN IF data.tag # "Ok" THEN data
                    ELSE IF IsNone(ImageData_new(data.pixels, image.width, image.height))
                    THEN ImgErr("size mismatch")
                    ELSE Unwrap(ImageData_new(data.pixels, image.width, image.height))

\* ------------------------------------------------------------------------
\* Specification of load_image: the function called on one image
\* ------------------------------------------------------------------------
MaxImageSide == 2
MaxImageBytes == 4
\* the i-th byte of an image stream
ImageByte(i) == ((i - 1) * 85) % 256
ImageStreams == {None} \cup {Some([i \in 1..n |-> ImageByte(i)]) : n \in 0..MaxImageBytes}
ImageColorSpaces ==
    {None, Some(DeviceGray), Some(DeviceRGB), Some(DeviceCMYK),
     Some(Indexed(DeviceRGB, 0, <<255, 0, 0>>)), Some(Indexed(DeviceCMYK, 0, <<0, 0, 0, 255>>)),
     Some(Indexed(DeviceGray, 0, <<0>>)),
     Some(Separation(DeviceRGB, Function(1, <<1, 0, 0>>))),
     Some(Separation(DeviceCMYK, Function(1, <<1, 0, 0>>))),
     Some(Separation(DeviceGray, Function(1, <<1>>))),
     Some(IccComponents(1)), Some(IccComponents(2)), Some(Named("CsMissing"))}
ImageMasks ==
    {None, Some(SMask(FALSE, 1, 1, Some(8), Some(1))), Some(SMask(TRUE, 1, 1, Some(8), None)),
     Some(SMask(TRUE, 1, 1, None, Some(1))), Some(SMask(TRUE, 1, 1, Some(8), Some(1))),
     Some(SMask(TRUE, 1, 1, Some(8), Some(2))), Some(SMask(TRUE, 1, 1, Some(3), Some(1))),
     Some(SMask(TRUE, 1, 1, Some(12), Some(2))), Some(SMask(TRUE, 2, 1, Some(1), Some(1)))}
ImageCalls ==
    {Pending("load_image", <<ImageXObject(w, h, d, cs, m), mode>>) :
        w \in 0..MaxImageSide, h \in 0..MaxImageSide, d \in ImageStreams,
        cs \in ImageColorSpaces, m \in ImageMasks, mode \in {"Darken", "Overlay"}}
InitImage == InitCall(ImageCalls)
NextImage ==
    /\ call.fn = "load_image"
    /\ call.out = <<>>
    /\ Return(load_image(call.args[1], "page", call.args[2]))
SpecImage == InitImage /\ [][NextImage]_vars

\* C19: load_image is total: for every image it returns Ok with exactly
\* width * height pixels or Err; it never aborts the process, and an
\* unsupported colour space or data ratio yields Err
C19_LoadImageTotal ==
    Returned("load_image") =>
        LET image == call.args[1]
            r == call.out[1]
        IN /\ r.tag \in {"Ok", "Err"}
           /\ r.tag = "Ok" => r.pixels = image.width * image.height

\* ------------------------------------------------------------------------
\* Specification of cmyk2rgb: the function called on one colour
\* ------------------------------------------------------------------------
\* components run from 0 to MaxComponent; 1 is full ink, more is out of range
MaxComponent == 2
CmykCalls ==
    {Pending("cmyk2rgb", <<c, m, y, k, mode>>) :
        c \in 0..MaxComponent, m \in 0..MaxComponent, y \in 0..MaxComponent,
        k \in 0..MaxComponent, mode \in {"Darken", "Overlay"}}
InitCmyk == InitCall(CmykCalls)
NextCmyk ==
    /\ call.fn = "cmyk2rgb"
    /\ call.out = <<>>
    /\ Return(cmyk2rgb(call.args[1], call.args[2], call.args[3], call.args[4], call.args[5]))
SpecCmyk == InitCmyk /\ [][NextCmyk]_vars

\* C20: in Darken mode cmyk2rgb of components in [0, 1] is
\* Solid(1 - min(1, c + k), 1 - min(1, m + k), 1 - min(1, y + k))
C20_CmykDarken ==
    (/\ Returned("cmyk2rgb")
     /\ call.args[5] = "Darken"
     /\ \A i \in 1..4 : call.args[i] \in 0..1)
        => call.out[1] = Solid(1 - Min(1, call.args[1] + call.args[4]),
                               1 - Min(1, call.args[2] + call.args[4]),
                               1 - Min(1, call.args[3] + call.args[4]))
\* `1 0 0 0 k` in Darken mode has given (0, 1, 1)
C20_Witness ==
    /\ Returned("cmyk2rgb")
    /\ call.args = <<1, 0, 0, 0, "Darken">>
    /\ call.out[1] = Solid(0, 1, 1)

\* ------------------------------------------------------------------------
\* The two CMYK conversions on one colour: cmyk2rgb of the colour operators
\* (renderstate.rs) and cmyk2rgb of the image decoder (image.rs)
\* ------------------------------------------------------------------------
ByteMax == 255
\* `(c * 255.) as u8`: the cast saturates
to_byte(c) == Min(ByteMax, Max(0, ByteMax * c))
\* u8::saturating_add
saturating_add(a, b) == Min(ByteMax, a + b)
\* cmyk2rgb of image.rs, on bytes
image_cmyk2rgb(c, m, y, k, mode) ==
    IF mode = "Darken"
    THEN <<ByteMax - saturating_add(c, k), ByteMax - saturating_add(m, k),
           ByteMax - saturating_add(y, k)>>
    ELSE LET c1 == ByteMax - c
             m1 == ByteMax - m
             y1 == ByteMax - y
             k1 == ByteMax - k
         IN <<ByteMax - saturating_add(c1, k1), ByteMax - saturating_add(m1, k1),
              ByteMax - saturating_add(y1, k1)>>
CmykBothCalls ==
    {Pending("cmyk2rgb", <<c, m, y, k, mode>>) :
        c \in 0..MaxComponent, m \in 0..MaxComponent, y \in 0..MaxComponent,
        k \in 0..MaxComponent, mode \in {"Darken", "Overlay"}}
InitCmykBoth == InitCall(CmykBothCalls)
\* the colour operators convert the value
ConvertColor ==
    /\ call.out = <<>>
    /\ Return(cmyk2rgb(call.args[1], call.args[2], call.args[3], call.args[4], call.args[5]))
\* the image decoder converts the same value
ConvertPixel ==
    /\ Len(call.out) = 1
    /\ call' = [call EXCEPT !.out = Append(@,
                    image_cmyk2rgb(to_byte(call.args[1]), to_byte(call.args[2]),
                                   to_byte(call.args[3]), to_byte(call.args[4]),
                                   call.args[5]))]
    /\ UNCHANGED <<renderstate, backend, op_nr, last, status, saved>>
NextCmykBoth == ConvertColor \/ ConvertPixel
SpecCmykBoth == InitCmykBoth /\ [][NextCmykBoth]_vars

\* both conversions have run on a value with components in [0, 1]
BothConverted == Len(call.out) = 2 /\ \A i \in 1..4 : call.args[i] \in 0..1
\* the fill is the pixel, a byte being 1/255 of the colour unit
SameColor(fill, rgb) ==
    /\ fill.tag = "Solid"
    /\ ByteMax * fill.r = rgb[1]
    /\ ByteMax * fill.g = rgb[2]
    /\ ByteMax * fill.b = rgb[3]
\* C28: the colour conversion agrees with the image decoder's in both modes,
\* and in Overlay mode it is the inverted form: the components are
\* complemented before the saturating sum
C28_OverlayInverted ==
    BothConverted
      => /\ SameColor(call.out[1], call.out[2])
         /\ call.args[5] = "Overlay"
              => call.out[1] = Solid(1 - Min(1, (1 - call.args[1]) + (1 - call.args[4])),
                                     1 - Min(1, (1 - call.args[2]) + (1 - call.args[4])),
                                     1 - Min(1, (1 - call.args[3]) + (1 - call.args[4])))

\* ------------------------------------------------------------------------
\* Glyph shapes and draw_glyph of the backends (scene.rs, vello_backend.rs)
\* ------------------------------------------------------------------------
ShapeEmpty == [shape |-> "Empty", outline |-> Outline_new, parts |-> <<>>]
ShapeSimple(outline) == [shape |-> "Simple", outline |-> outline, parts |-> <<>>]
\* parts: pairs <<glyph id, transform>>
ShapeCompound(parts) == [shape |-> "Compound", outline |-> Outline_new, parts |-> parts]
\* the component loop of draw_glyph: a part is drawn when it is a simple
\* glyph, anything else is passed over
RECURSIVE draw_glyph_parts(_, _, _, _, _, _)
draw_glyph_parts(be, font, parts, mode, transform, clip) ==
    IF Len(parts) = 0 THEN be
    ELSE LET id == parts[1][1]
             tr == parts[1][2]
             be1 == IF id \in DOMAIN font /\ font[id].shape = "Simple"
                    THEN backend_draw(be, font[id].outline, mode, "Winding", TMul(transform, tr),
                                      clip)
                    ELSE be
         IN draw_glyph_parts(be1, font, Tail(parts), mode, transform, clip)
\* SceneBackend::draw_glyph and VelloBackend::draw_glyph
draw_glyph(be, font, glyph, mode, transform, clip) ==
    CASE glyph.shape = "Empty" -> be
      [] glyph.shape = "Simple" ->
            backend_draw(be, glyph.outline, mode, "Winding", transform, clip)
      [] glyph.shape = "Compound" ->
            draw_glyph_parts(be, font, glyph.parts, mode, transform, clip)

\* ------------------------------------------------------------------------
\* Specification of draw_glyph: the function called on one glyph of a font
\* with nested compound glyphs
\* ------------------------------------------------------------------------
MaxGlyphId == 5
\* glyph 0 is empty, 1 and 2 are simple, 3 is made of 1, 2 and a glyph the
\* font lacks, and every later glyph is made of its predecessor and glyph 1
GlyphFont ==
    [id \in 0..MaxGlyphId |->
        CASE id = 0 -> ShapeEmpty
          [] id = 1 -> ShapeSimple(Outline_from_rect(RectF_new(<<0, 0>>, <<1, 2>>)))
          [] id = 2 -> ShapeSimple(Outline_from_rect(RectF_new(<<0, 0>>, <<2, 1>>)))
          [] id = 3 -> ShapeCompound(<<<<1, from_translation(<<1, 0>>)>>,
                                       <<2, from_scale(<<2, 2>>)>>,
                                       <<MaxGlyphId + 1, Transform2F_default>>>>)
          [] OTHER -> ShapeCompound(<<<<id - 1, from_translation(<<0, id>>)>>,
                                      <<1, from_scale(<<id, 1>>)>>>>)]
GlyphTransforms ==
    {Transform2F_default, from_translation(<<3, 0>>), from_scale(<<2, 3>>),
     row_major(0, 1, 0, 1, 0, 0), row_major(1, 1, 0, 0, 1, 5)}
GlyphModes == {[kind |-> "Fill", fill |-> <<Solid(0, 0, 0), AlphaOne>>]}
GlyphCalls ==
    {Pending("draw_glyph", <<id, mode, tr, clip>>) :
        id \in 0..MaxGlyphId, mode \in GlyphModes, tr \in GlyphTransforms,
        clip \in {None, Some(0)}}
InitGlyph ==
    /\ renderstate = RenderState_new(ParseOptions(FALSE), PageResources, RootTransformation)
    /\ backend \in {Backend_new(k) : k \in {"scene", "vello"}}
    /\ op_nr = 0
    /\ last = [op |-> Op("None", NoArg), res |-> Ok, nr |-> 0, changed |-> FALSE, clip |-> None]
    /\ status = "running"
    /\ saved = <<>>
    /\ call \in GlyphCalls
NextGlyph ==
    /\ call.fn = "draw_glyph"
    /\ call.out = <<>>
    /\ backend' = draw_glyph(backend, GlyphFont, GlyphFont[call.args[1]], call.args[2],
                             call.args[3], call.args[4])
    /\ call' = [call EXCEPT !.out = <<Ok>>]
    /\ UNCHANGED <<renderstate, op_nr, last, status, saved>>
SpecGlyph == InitGlyph /\ [][NextGlyph]_vars

\* the simple glyphs reachable from glyph id of the font, each with the
\* product of the transforms along its path of references, in drawing order
RECURSIVE Components(_, _, _)
ComponentsOfParts(font, parts, transform) ==
    LET F[n \in 0..Len(parts)] ==
            IF n = 0 THEN <<>>
            ELSE F[n - 1] \o Components(font, parts[n][1], TMul(transform, parts[n][2]))
    IN F[Len(parts)]
Components(font, id, transform) ==
    IF id \notin DOMAIN font THEN <<>>
    ELSE CASE font[id].shape = "Empty" -> <<>>
           [] font[id].shape = "Simple" ->
                 <<[outline |-> font[id].outline, transform |-> transform]>>
           [] font[id].shape = "Compound" -> ComponentsOfParts(font, font[id].parts, transform)
\* C22: draw_glyph draws every simple component reachable through the
\* component references of a compound glyph, at any nesting depth, each with
\* the product of the transforms along its reference path
C22_CompoundGlyphs ==
    Returned("draw_glyph") =>
        [i \in 1..Len(backend.calls) |->
            [outline |-> backend.calls[i].outline, transform |-> backend.calls[i].transform]]
        = Components(GlyphFont, call.args[1], call.args[3])

\* ------------------------------------------------------------------------
\* Specification of the stroke style: pages over the stroke-style operators,
\* Save, Restore and stroked paths
\* ------------------------------------------------------------------------
MaxStrokeOps == 4
\* pathfinder's LineJoin::Miter(limit)
LineJoin_Miter(limit) ==
    CASE limit = 1 -> "Miter1"
      [] limit = 4 -> "Miter4"
      [] OTHER -> "Miter10"
InitStroke == InitWith({"scene"}, {FALSE})
NextStroke ==
    \/ \E j \in {"Miter", "Round", "Bevel"} : op_nr < MaxStrokeOps /\ Exec(Op("LineJoin", j))
    \/ \E c \in {"Butt", "Round", "Square"} : op_nr < MaxStrokeOps /\ Exec(Op("LineCap", c))
    \/ \E l \in {1, 4} : op_nr < MaxStrokeOps /\ Exec(Op("MiterLimit", l))
    \/ op_nr < MaxStrokeOps /\ Exec(Op("LineWidth", 3))
    \/ op_nr < MaxStrokeOps /\ Exec(Op("Rect", Rect(0, 0, 1, 1)))
    \/ op_nr < MaxStrokeOps /\ Exec(Op("Stroke", NoArg))
    \/ op_nr < MaxStrokeOps /\ Exec(Op("FillAndStroke", "NonZero"))
    \/ op_nr < MaxStrokeOps /\ Exec(Op("Save", NoArg))
    \/ op_nr < MaxStrokeOps /\ Exec(Op("Restore", NoArg))
    \/ Finish
SpecStroke == InitStroke /\ [][NextStroke]_vars

\* the join is a miter join
IsMiter(join) == join \notin {"Round", "Bevel"}
\* C31: LineJoin, LineCap and MiterLimit set the join, the cap and the miter
\* limit of the stroke style, and a Stroke or FillAndStroke draw call carries
\* the stroke style that is current
C31_StrokeStyleOps ==
    [][(IsExec /\ IsOk(last'.res))
         => LET style == renderstate.graphics_state.stroke_style
                style1 == renderstate'.graphics_state.stroke_style
            IN /\ last'.op.kind = "LineCap" => style1.line_cap = last'.op.arg
               /\ last'.op.kind = "LineJoin"
                    => IF last'.op.arg = "Miter" THEN IsMiter(style1.line_join)
                       ELSE style1.line_join = last'.op.arg
               /\ (last'.op.kind = "MiterLimit" /\ IsMiter(style.line_join))
                    => style1.line_join = LineJoin_Miter(last'.op.arg)
               /\ last'.op.kind \in {"Stroke", "FillAndStroke"}
                    => /\ Len(NewCalls) = 1
                       /\ NewCalls[1].mode.stroke_mode.style = style]_vars

\* ------------------------------------------------------------------------
\* Specification of the clip bookkeeping: pages over Clip on rectangles and
\* on other paths, Save, Restore and forms that clip
\* ------------------------------------------------------------------------
MaxBookOps == 5
InitBook == InitWith({"scene"}, {FALSE})
NextBook ==
    \/ \E r \in ClipRects : op_nr < MaxBookOps /\ Exec(Op("Rect", r))
    \/ op_nr < MaxBookOps /\ Exec(Op("MoveTo", <<0, 0>>))
    \/ \E p \in {<<3, 0>>, <<0, 3>>} : op_nr < MaxBookOps /\ Exec(Op("LineTo", p))
    \/ op_nr < MaxBookOps /\ Exec(Op("Clip", "NonZero"))
    \/ op_nr < MaxBookOps /\ Exec(Op("Save", NoArg))
    \/ op_nr < MaxBookOps /\ Exec(Op("Restore", NoArg))
    \/ \E n \in {"Fm1", "FmLeaf"} : op_nr < MaxBookOps /\ Exec(Op("XObject", n))
    \/ Finish
SpecBook == InitBook /\ [][NextBook]_vars

\* the clip fields of a graphics state are consistent
ClipBookkeeping(gs) ==
    /\ IsSome(gs.clip_path_rect) => IsSome(gs.clip_path_id)
    /\ IsSome(gs.clip_path_id) => IsSome(gs.clip_path)
\* C33: in the graphics state and in every saved one a clip rectangle comes
\* with a clip id and a clip id with a clip path, and no Clip, on the page or
\* in a form, reaches the unreachable arm or unwraps a missing clip path
C33_ClipBookkeeping ==
    /\ ClipBookkeeping(renderstate.graphics_state)
    /\ \A i \in 1..Len(renderstate.stack) : ClipBookkeeping(renderstate.stack[i][1])
    /\ last.res.tag # "Panic"
\* a second Clip on a rectangle has met a clip rectangle and a clip id, with
\* a state saved before the first
C33_Witness ==
    /\ last.op.kind = "Clip" /\ IsOk(last.res)
    /\ Len(backend.clip_paths) = 2
    /\ IsSome(renderstate.graphics_state.clip_path_rect)
    /\ Len(renderstate.stack) = 1
    /\ IsNone(renderstate.stack[1][1].clip_path_id)

\* ------------------------------------------------------------------------
\* Specification of the clip id cache of GraphicsState (graphicsstate.rs):
\* merge_clip_path and clip_path_id called on one graphics state and one
\* scene.  The clip outlines are rectangles.
\* ------------------------------------------------------------------------
\* the rectangle a clip outline of one rectangular contour covers
clip_polygon(outline) ==
    LET b == contour_bounds(outline.contours[1])
    IN IF IsSome(outline.clipped)
       THEN unwrap_or_default(rect_intersection(b, Unwrap(outline.clipped)))
       ELSE b
\* GraphicsState::merge_clip_path
merge_clip_path(gs, outline, fill_rule) ==
    LET merged == IF IsSome(gs.clip_path)
                  THEN clip_against_polygon(outline, clip_polygon(Unwrap(gs.clip_path).outline))
                  ELSE outline
    IN [gs EXCEPT !.clip_path = Some([outline |-> merged, fill_rule |-> fill_rule])]
\* Scene::push_clip_path; ids count from 0
push_clip_path(scene, clip) == [scene |-> Append(scene, clip), id |-> Len(scene)]
\* GraphicsState::clip_path_id: the graphics state, the scene and the id
\* returned; res is a panic in the unreachable arm
clip_path_id(gs, scene) ==
    CASE IsNone(gs.clip_path) /\ IsNone(gs.clip_path_id) ->
            [gs |-> gs, scene |-> scene, id |-> None, res |-> Ok]
      [] IsSome(gs.clip_path) /\ IsSome(gs.clip_path_id) ->
            [gs |-> gs, scene |-> scene, id |-> gs.clip_path_id, res |-> Ok]
      [] IsSome(gs.clip_path) /\ IsNone(gs.clip_path_id) ->
            LET p == push_clip_path(scene, Unwrap(gs.clip_path))
            IN [gs |-> [gs EXCEPT !.clip_path_id = Some(p.id)], scene |-> p.scene,
                id |-> Some(p.id), res |-> Ok]
      [] OTHER -> [gs |-> gs, scene |-> scene, id |-> None, res |-> Panic("unreachable")]

MaxClipCalls == 4
\* call.args: the graphics state and the clip paths of the scene; call.out:
\* what the calls of clip_path_id returned so far
InitClipId ==
    InitCall({[fn |-> "GraphicsState",
               args |-> <<RenderState_new(ParseOptions(FALSE), PageResources,
                                          RootTransformation).graphics_state, <<>>>>,
               out |-> <<>>]})
MergeClipPath(r, fill_rule) ==
    /\ call.fn = "GraphicsState"
    /\ call' = [call EXCEPT !.args[1] = merge_clip_path(@, Outline_from_rect(cvt_rect(r)), fill_rule)]
    /\ UNCHANGED <<renderstate, backend, op_nr, last, status, saved>>
ClipPathId ==
    /\ call.fn = "GraphicsState"
    /\ Len(call.out) < MaxClipCalls
    /\ LET r == clip_path_id(call.args[1], call.args[2])
       IN call' = [call EXCEPT !.args = <<r.gs, r.scene>>, !.out = Append(@, r)]
    /\ UNCHANGED <<renderstate, backend, op_nr, last, status, saved>>
NextClipId ==
    \/ \E r \in ClipRects, w \in {"Winding", "EvenOdd"} : MergeClipPath(r, w)
    \/ ClipPathId
SpecClipId == InitClipId /\ [][NextClipId]_vars

\* two clip paths clip to the same region
SameClip(a, b) == Region(a.outline, a.fill_rule) = Region(b.outline, b.fill_rule)
\* C34: the id clip_path_id returns denotes a clip path of the scene that is
\* the current clip path of the graphics state
C34_ClipIdCoherent ==
    [][(call'.out # call.out)
         => LET r == call'.out[Len(call'.out)]
            IN /\ r.res = Ok
               /\ IsSome(r.id) = IsSome(call.args[1].clip_path)
               /\ IsSome(r.id)
                    => /\ Unwrap(r.id) < Len(r.scene)
                       /\ SameClip(r.scene[Unwrap(r.id) + 1], Unwrap(call.args[1].clip_path))]_vars

\* ------------------------------------------------------------------------
\* Specification of the clip tracking of VelloBackend (vello_backend.rs):
\* create_clip_path and draw called on one backend.  Of the scene the model
\* keeps the open layers (the clip id each was pushed for) and the commands
\* encoded so far.
\* ------------------------------------------------------------------------
VelloBackend_new ==
    [scene |-> [layers |-> <<>>, cmds |-> <<>>], clip_paths |-> <<>>, current_clip_path |-> None]
\* Scene::push_layer with the path of clip id n, Scene::pop_layer
push_layer(scene, n) ==
    [scene EXCEPT !.layers = Append(@, n), !.cmds = Append(@, <<"push_layer", n>>)]
pop_layer(scene) ==
    [scene EXCEPT !.layers = IF Len(@) = 0 THEN @ ELSE SubSeq(@, 1, Len(@) - 1),
                  !.cmds = Append(@, <<"pop_layer">>)]
\* VelloBackend::set_clip_path
set_clip_path(vb, clip_path) ==
    IF clip_path = vb.current_clip_path
    THEN LET s1 == IF IsSome(vb.current_clip_path) THEN pop_layer(vb.scene) ELSE vb.scene
             s2 == IF IsSome(clip_path) THEN push_layer(s1, Unwrap(clip_path)) ELSE s1
         IN [vb EXCEPT !.scene = s2, !.current_clip_path = clip_path]
    ELSE vb
\* VelloBackend::create_clip_path
vello_create_clip_path(vb, path, fill_rule) ==
    [vb EXCEPT !.clip_paths = Append(@, <<path, fill_rule>>)]
\* VelloBackend::draw; kind: the DrawMode
vello_draw(vb, kind, clip) ==
    LET vb1 == set_clip_path(vb, clip)
        s1 == IF kind \in {"Fill", "FillStroke"}
              THEN [vb1.scene EXCEPT !.cmds = Append(@, <<"fill">>)] ELSE vb1.scene
        s2 == IF kind \in {"Stroke", "FillStroke"}
              THEN [s1 EXCEPT !.cmds = Append(@, <<"stroke">>)] ELSE s1
    IN [vb1 EXCEPT !.scene = s2]

MaxVelloCalls == 4
\* call.args: the backend; call.out: the clip each draw call was handed
InitVello == InitCall({[fn |-> "VelloBackend", args |-> <<VelloBackend_new>>, out |-> <<>>]})
VelloCalls == Len(call.out) + Len(call.args[1].clip_paths)
VelloCreateClipPath ==
    /\ call.fn = "VelloBackend"
    /\ VelloCalls < MaxVelloCalls
    /\ \E r \in ClipRects :
          call' = [call EXCEPT !.args[1] =
                      vello_create_clip_path(@, Outline_from_rect(cvt_rect(r)), "Winding")]
    /\ UNCHANGED <<renderstate, backend, op_nr, last, status, saved>>
VelloDraw ==
    /\ call.fn = "VelloBackend"
    /\ VelloCalls < MaxVelloCalls
    /\ \E kind \in {"Fill", "Stroke", "FillStroke"},
          clip \in {None} \cup {Some(n) : n \in 0..(Len(call.args[1].clip_paths) - 1)} :
          call' = [call EXCEPT !.args[1] = vello_draw(@, kind, clip), !.out = Append(@, clip)]
    /\ UNCHANGED <<renderstate, backend, op_nr, last, status, saved>>
NextVello == VelloCreateClipPath \/ VelloDraw
SpecVello == InitVello /\ [][NextVello]_vars

\* C36: after a draw call with clip c the backend's current clip is c and
\* the scene has the one open layer of c (none when c is None); a draw with
\* the clip that is current pushes and pops nothing
C36_VelloClipTracking ==
    [][(call'.out # call.out)
         => LET c == call'.out[Len(call'.out)]
                vb == call.args[1]
                vb1 == call'.args[1]
                layer_cmds(s) == SelectSeq(s.cmds, LAMBDA x : x[1] \in {"push_layer", "pop_layer"})
            IN /\ vb1.current_clip_path = c
               /\ vb1.scene.layers = c
               /\ c = vb.current_clip_path => layer_cmds(vb1.scene) = layer_cmds(vb.scene)]_vars

\* ------------------------------------------------------------------------
\* Specification of ImageData::rotate (image.rs): an image rotated by one
\* angle, the result by a second, and the image by the sum of the two
\* ------------------------------------------------------------------------
\* an ImageData with its pixels, row by row
ImageData(data, width, height) == [data |-> data, width |-> width, height |-> height]
\* the pixels pushed by the two loops of a quarter turn: the columns ys in
\* turn, each along the rows xs
quarter_turn(img, ys, xs) ==
    Flatten([i \in 1..Len(ys) |-> [j \in 1..Len(xs) |-> img.data[xs[j] * img.width + ys[i] + 1]]])
\* 0 .. n - 1 and its reverse
range(n) == [i \in 1..n |-> i - 1]
range_rev(n) == [i \in 1..n |-> n - i]
\* ImageData::new(..).unwrap() of rotate
rotated(data, width, height) ==
    IF IsNone(ImageData_new(Len(data), width, height))
    THEN [tag |-> "Panic", msg |-> "unwrap on None", img |-> ImageData(<<>>, 0, 0)]
    ELSE [tag |-> "Ok", msg |-> "", img |-> ImageData(data, width, height)]
invalid_rotation == [tag |-> "Panic", msg |-> "invalid rotation", img |-> ImageData(<<>>, 0, 0)]
\* (mutant) a turn by 1 reads the columns top to bottom
rotate_unreversed(img, angle) ==
    CASE angle = 0 -> rotated(img.data, img.width, img.height)
      [] angle = 1 -> rotated(quarter_turn(img, range(img.width), range(img.height)),
                              img.height, img.width)
      [] angle = 2 -> rotated([i \in 1..Len(img.data) |-> img.data[Len(img.data) + 1 - i]],
                              img.width, img.height)
      [] angle = 3 -> rotated(quarter_turn(img, range_rev(img.width), range(img.height)),
                              img.height, img.width)
      [] OTHER -> invalid_rotation
\* ImageData::rotate; img is the image of an Ok result
rotate(img, angle) ==
    CASE angle = 0 -> rotated(img.data, img.width, img.height)
      [] angle = 1 -> rotated(quarter_turn(img, range(img.width), range_rev(img.height)),
                              img.height, img.width)
      [] angle = 2 -> rotated([i \in 1..Len(img.data) |-> img.data[Len(img.data) + 1 - i]],
                              img.width, img.height)
      [] angle = 3 -> rotated(quarter_turn(img, range_rev(img.width), range(img.height)),
                              img.height, img.width)
      [] OTHER -> invalid_rotation

MaxRotateSide == 3
\* images whose pixels are all different, as ImageData::new accepts them
RotateImages ==
    {ImageData([i \in 1..(w * h) |-> i], w, h) : w \in 0..MaxRotateSide, h \in 0..MaxRotateSide}
RotateCalls == {Pending("rotate", <<img, a, b>>) : img \in RotateImages, a \in 0..3, b \in 0..3}
InitRotate == InitCall(RotateCalls)
\* img.rotate(a)
RotateFirst ==
    /\ call.fn = "rotate" /\ Len(call.out) = 0
    /\ Return(rotate(call.args[1], call.args[2]))
\* img.rotate(a).rotate(b)
RotateSecond ==
    /\ call.fn = "rotate" /\ Len(call.out) = 1 /\ IsOk(call.out[1])
    /\ call' = [call EXCEPT !.out = Append(@, rotate(call.out[1].img, call.args[3]))]
    /\ UNCHANGED <<renderstate, backend, op_nr, last, status, saved>>
\* img.rotate((a + b) mod 4)
RotateSum ==
    /\ call.fn = "rotate" /\ Len(call.out) = 2
    /\ call' = [call EXCEPT !.out =
                   Append(@, rotate(call.args[1], (call.args[2] + call.args[3]) % 4))]
    /\ UNCHANGED <<renderstate, backend, op_nr, last, status, saved>>
NextRotate == RotateFirst \/ RotateSecond \/ RotateSum
SpecRotate == InitRotate /\ [][NextRotate]_vars

\* C38: rotate(a) then rotate(b) is rotate((a + b) mod 4); every result has
\* width * height pixels, and turns by 1 and 3 swap width and height
C38_RotateComposes ==
    /\ \A i \in 1..Len(call.out) :
          call.fn = "rotate"
            => /\ IsOk(call.out[i])
               /\ Len(call.out[i].img.data) = call.out[i].img.width * call.out[i].img.height
    /\ Returned("rotate")
         => LET img == call.args[1]
                r == call.out[1].img
            IN IF call.args[2] \in {1, 3}
               THEN r.width = img.height /\ r.height = img.width
               ELSE r.width = img.width /\ r.height = img.height
    /\ (call.fn = "rotate" /\ Len(call.out) = 3) => call.out[2] = call.out[3]
    /\ (call.fn = "rotate" /\ Len(call.out) = 2 /\ call.args[2] = 1 /\ call.args[3] = 3)
         => call.out[2].img = call.args[1]
\* a 3 by 2 image turned by 1 and then by 3 is itself again
C38_Witness ==
    /\ call.fn = "rotate" /\ Len(call.out) = 3
    /\ call.args[1].width = 3 /\ call.args[1].height = 2
    /\ call.args[2] = 1 /\ call.args[3] = 3
    /\ call.out[1].img = ImageData(<<4, 1, 5, 2, 6, 3>>, 2, 3)
    /\ call.out[2].img = call.args[1]

\* ------------------------------------------------------------------------
\* Specification of ContinuousScroll (vview/src/continuous_scroll.rs):
\* go_to_page called on one scroller.  Of a window entry the model keeps the
\* page number.  The page loader has the pages 0 .. num_pages - 1.
\* ------------------------------------------------------------------------
\* SlidingWindow::push_back
push_back(w, item) ==
    LET queue == IF Len(w.queue) = w.size THEN Tail(w.queue) ELSE w.queue
    IN [w EXCEPT !.queue = Append(queue, item)]
\* PageLoader::load_page
load_page(num_pages, page_nr) == IF page_nr < num_pages THEN Some(page_nr) ELSE None
\* the loop of go_to_page over start_page ..= end_page
RECURSIVE go_to_page_loop(_, _, _, _)
go_to_page_loop(w, num_pages, page_nr, end_page) ==
    IF page_nr > end_page THEN w
    ELSE go_to_page_loop(IF IsSome(load_page(num_pages, page_nr)) THEN push_back(w, page_nr) ELSE w,
                         num_pages, page_nr + 1, end_page)
\* ContinuousScroll::new
ContinuousScroll_new(sliding_window_size, num_pages) ==
    [sliding_window |-> [queue |-> <<>>, size |-> sliding_window_size],
     current_page_nr |-> 0, num_pages |-> num_pages]
\* ContinuousScroll::go_to_page
go_to_page(cs, page_nr) ==
    LET current_page_nr == IF IsSome(page_nr) THEN Unwrap(page_nr) ELSE cs.current_page_nr
        half == cs.sliding_window.size \div 2
        start_page == Max(0, current_page_nr - half)
        end_page == Min(current_page_nr + half, cs.num_pages)
    IN [cs EXCEPT !.sliding_window = go_to_page_loop(@, cs.num_pages, start_page, end_page),
                  !.current_page_nr = current_page_nr]

MaxWindowSize == 3
MaxPages == 5
MaxScrollCalls == 3
\* call.args: the scroller; call.out: the page numbers go_to_page was handed
InitScroll ==
    InitCall({[fn |-> "ContinuousScroll", args |-> <<ContinuousScroll_new(size, n)>>, out |-> <<>>] :
                 size \in 1..MaxWindowSize, n \in 1..MaxPages})
GoToPage(page_nr) ==
    /\ call.fn = "ContinuousScroll"
    /\ Len(call.out) < MaxScrollCalls
    /\ call' = [call EXCEPT !.args[1] = go_to_page(@, page_nr), !.out = Append(@, page_nr)]
    /\ UNCHANGED <<renderstate, backend, op_nr, last, status, saved>>
NextScroll ==
    \/ \E p \in 0..(MaxPages - 1) : p < call.args[1].num_pages /\ GoToPage(Some(p))
    \/ GoToPage(None)
SpecScroll == InitScroll /\ [][NextScroll]_vars

\* C39: after go_to_page calls with valid page numbers the window has at
\* most size entries, their page numbers go up by one from front to back,
\* and the current page is among them
C39_WindowShape ==
    (call.fn = "ContinuousScroll" /\ Len(call.out) > 0)
      => LET w == call.args[1].sliding_window
         IN /\ Len(w.queue) <= w.size
            /\ \A i \in 1..(Len(w.queue) - 1) : w.queue[i + 1] = w.queue[i] + 1
            /\ \E i \in 1..Len(w.queue) : w.queue[i] = call.args[1].current_page_nr

\* ------------------------------------------------------------------------
\* Specification of the viewer's page index (vview/src/application.rs,
\* vview/src/lib.rs): one file is opened and the view seeks in it.
\* ------------------------------------------------------------------------
InitialPageNr == 5
\* FileContext::new
FileContext_new(num_pages) == [page_nr |-> InitialPageNr, num_pages |-> num_pages]
\* ViewContext::seek_forward; the sums of the model stay far below 2^32
seek_forward(current, n) ==
    [current EXCEPT !.page_nr = Min(current.page_nr + n, current.num_pages)]
\* ViewContext::seek_backwards
seek_backwards(current, n) ==
    [current EXCEPT !.page_nr = Max(0, current.page_nr - n)]

MaxFilePages == 7
MaxSeek == 3
MaxSeekCalls == 4
\* call.args: the current file; call.out: the seeks made
InitSeek ==
    InitCall({[fn |-> "ViewContext", args |-> <<FileContext_new(n)>>, out |-> <<>>] : n \in 1..MaxFilePages})
SeekForward(n) ==
    /\ call.fn = "ViewContext"
    /\ Len(call.out) < MaxSeekCalls
    /\ call' = [call EXCEPT !.args[1] = seek_forward(@, n), !.out = Append(@, n)]
    /\ UNCHANGED <<renderstate, backend, op_nr, last, status, saved>>
SeekBackwards(n) ==
    /\ call.fn = "ViewContext"
    /\ Len(call.out) < MaxSeekCalls
    /\ call' = [call EXCEPT !.args[1] = seek_backwards(@, n), !.out = Append(@, 0 - n)]
    /\ UNCHANGED <<renderstate, backend, op_nr, last, status, saved>>
NextSeek ==
    \/ \E n \in 0..MaxSeek : SeekForward(n)
    \/ \E n \in 0..MaxSeek : SeekBackwards(n)
SpecSeek == InitSeek /\ [][NextSeek]_vars

\* C40: for a file with at least one page the page index of the current
\* file is at least 0 and below the number of pages, after construction and
\* after every seek
C40_PageIndexValid ==
    call.fn = "ViewContext"
      => (0 <= call.args[1].page_nr /\ call.args[1].page_nr < call.args[1].num_pages)

====
